---- MODULE Spec2Model ----
(***************************************************************************)
(* Wakuiki card game: the room's status state machine, the stored          *)
(* procedures that move cards under row locks, and the client handlers     *)
(* that drive the phase transitions.                                       *)
(*                                                                         *)
(* Card names are abstracted to the integers 1..EXPECTED_DECK_SIZE; the    *)
(* catalog order stands for the shuffled deck stored at room creation.     *)
(***************************************************************************)
EXTENDS Integers, Sequences, FiniteSets, Bags, TLC

\* ------------------------------------------------------------------ constants
EXPECTED_DECK_SIZE == 36
NumSeats == 4
HandSize == 3
ExchangeRound == 3
FinalRound == 5
GiftsPerTurn == 3
SpectatorNumber == 999
PurposeCount == 10

\* ------------------------------------------------------------------ bounds
\* calls explored from the dealt room under SpecCards
MaxOps == 3
\* procedure invocations in flight under SpecLock
MaxCalls == 2
\* highest purpose-card index a vote may carry
MaxCardIndex == 0
\* clients whose screen may lag behind the room row at any one time
MaxStale == 1
\* client handlers that may be in flight at any one time
MaxRacers == 2
\* hand and board positions a player chooses among under SpecGame
MaxPick == 1
\* rows the exchange log holds at most
MaxLog == 5
\* highest card index among the votes already cast when SpecVoting starts
MaxTally == 1
\* cards left on the deck, at most, when SpecDrawn starts
MaxLeft == 2
\* iterations of the shuffle whose random index is free; the later ones stay put
MaxShuffle == 2
\* largest number of cards a replenishment is asked to bring the pile to
MaxTarget == 2
\* successful discards after which the seats of SpecTurns stop playing
MaxTurns == 2
\* procedure calls made after the game is over in SpecOver
MaxAfter == 2
\* change events on their way to one client at a time
MaxEvents == 2
\* seats that call procedures in SpecOrder
MaxLockers == 2
\* seats whose channel loses, repeats and reconnects in SpecSync
MaxWatch == 2

Cards == 1..EXPECTED_DECK_SIZE
Seats == 0..(NumSeats - 1)
Spectator == NumSeats
PlayerIds == Seats \cup {Spectator}
NoPlayer == Spectator + 1
TheRoom == "room"
NoRoom == "no_room"
NoCard == EXPECTED_DECK_SIZE + 1
RoomArgs == {TheRoom, NoRoom}
PlayerArgs == PlayerIds \cup {NoPlayer}

\* database rows: room, players, votes; the last RPC reply: result;
\* per-client local state: clients; procedure invocations in flight: txns;
\* history counters: ops (calls made), discards (successful discards),
\* fired (effective conditional status writes, per target status)
\* more rows: resonance_shares, exchange_actions; what each seat's screen has
\* last received of the room row and the exchange log: seen; whether the
\* voting countdown still runs (1) or has reached zero (0): timeLeft
VARIABLES room, players, votes, result, clients, txns, ops, discards, fired,
          resonance_shares, exchange_actions, seen, timeLeft

vars == <<room, players, votes, result, clients, txns, ops, discards, fired,
         resonance_shares, exchange_actions, seen, timeLeft>>

\* ------------------------------------------------------------------ sequences
Range(s) == {s[i] : i \in 1..Len(s)}

Contains(s, x) == \E i \in 1..Len(s) : s[i] = x

Count(s, x) == Cardinality({i \in 1..Len(s) : s[i] = x})

\* index of the last occurrence of x in s (0 when absent)
last_index(s, x) ==
  IF Contains(s, x) THEN CHOOSE i \in 1..Len(s) : s[i] = x /\ \A j \in (i + 1)..Len(s) : s[j] # x
  ELSE 0

\* index of the first occurrence of x in s (0 when absent)
FirstIndex(s, x) ==
  IF Contains(s, x) THEN CHOOSE i \in 1..Len(s) : s[i] = x /\ \A j \in 1..(i - 1) : s[j] # x
  ELSE 0

RemoveAt(s, i) == [k \in 1..(Len(s) - 1) |-> IF k < i THEN s[k] ELSE s[k + 1]]

\* a variant that takes the element out and puts x at the end
append_instead(s, i, x) == Append([k \in 1..(Len(s) - 1) |-> IF k < i THEN s[k] ELSE s[k + 1]], x)

ReplaceAt(s, i, x) == [k \in 1..Len(s) |-> IF k = i THEN x ELSE s[k]]

\* a variant of the slice that starts one position late and wraps around
slice_shifted(s, from, to) == [k \in 1..(to - from) |-> s[((from + k) % Len(s)) + 1]]

Slice(s, from, to) == [k \in 1..(to - from) |-> s[from + k]]

\* ------------------------------------------------------------------ rows
CARD_LIST == [i \in 1..EXPECTED_DECK_SIZE |-> i]

\* voting_started_at of a room whose countdown has no anchor yet
NoTime == 0 - 1

NewRoom(deck) ==
  [status |-> "waiting", purpose_card |-> 0, card_options |-> <<>>,
   deck |-> deck, discard_pile |-> <<>>,
   current_turn_player |-> 0, round_number |-> 0, exchange_completed |-> FALSE,
   current_exchange_turn |-> 0, final_phase_turn |-> 0, final_phase_step |-> "sharing",
   voting_started_at |-> NoTime]

NewPlayer(id) ==
  [player_number |-> IF id \in Seats THEN id ELSE SpectatorNumber,
   role |-> IF id \in Seats THEN "player" ELSE "spectator",
   hand |-> <<>>,
   has_shared_final_resonance |-> FALSE,
   has_given_final_gift |-> FALSE,
   final_gifts_received |-> EmptyBag,
   final_reflection_text |-> FALSE,
   has_checked_in |-> FALSE,
   ready_for_next_phase |-> FALSE]

\* the value an RPC returns to its caller, filed with the arguments of the call
Reply(op, ok, msg, card) ==
  [op |-> op, success |-> ok, message |-> msg, card |-> card, args |-> <<>>]

NoReply == Reply("none", TRUE, "", NoCard)

Outcome(rm, ps, reply) == [room |-> rm, players |-> ps, reply |-> reply]

\* ------------------------------------------------------------------ gameUtils
\* the variant of the deal that does not check its input first
deal_unchecked(deck) ==
  [ok |-> TRUE,
   hands |-> [i \in 1..NumSeats |-> [k \in 1..HandSize |-> IF (i - 1) * HandSize + k <= Len(deck) THEN deck[(i - 1) * HandSize + k] ELSE NoCard]],
   discardPile |-> <<>>,
   remainingDeck |-> IF Len(deck) > NumSeats * HandSize THEN Slice(deck, NumSeats * HandSize, Len(deck)) ELSE <<>>]

dealInitialHands(deck) ==
  IF Len(deck) # EXPECTED_DECK_SIZE \/ Cardinality(Range(deck)) # EXPECTED_DECK_SIZE
  THEN [ok |-> FALSE, hands |-> <<>>, discardPile |-> <<>>, remainingDeck |-> <<>>]
  ELSE [ok |-> TRUE,
        hands |-> [i \in 1..NumSeats |-> Slice(deck, (i - 1) * HandSize, i * HandSize)],
        discardPile |-> <<>>,
        remainingDeck |-> Slice(deck, NumSeats * HandSize, Len(deck))]

\* the room and players right after voting resolved and play began
DealtRoom ==
  LET d == dealInitialHands(CARD_LIST) IN
  [NewRoom(d.remainingDeck) EXCEPT !.status = "playing", !.purpose_card = 1]

DealtPlayers ==
  LET d == dealInitialHands(CARD_LIST) IN
  [id \in PlayerIds |->
     IF id \in Seats THEN [NewPlayer(id) EXCEPT !.hand = d.hands[id + 1]] ELSE NewPlayer(id)]

\* ------------------------------------------------------------------ stored procedures
\* Each procedure is a function of the rows it reads under FOR UPDATE locks;
\* it yields the rows it leaves behind and the jsonb it returns.

\* a variant that leaves the drawn card on the deck
draw_keeps_deck(rm, ps, p_room_id, p_player_id) ==
  IF p_room_id # TheRoom THEN Outcome(rm, ps, Reply("draw", FALSE, "room_not_found", NoCard))
  ELSE IF p_player_id \notin DOMAIN ps
  THEN Outcome(rm, ps, Reply("draw", FALSE, "player_not_found", NoCard))
  ELSE IF Len(rm.deck) = 0 THEN Outcome(rm, ps, Reply("draw", FALSE, "deck_empty", NoCard))
  ELSE Outcome(rm,
               [ps EXCEPT ![p_player_id].hand = Append(@, Head(rm.deck))],
               Reply("draw", TRUE, "drawn", Head(rm.deck)))

\* a variant of the draw that never looks the room up
draw_in_any_room(rm, ps, p_room_id, p_player_id) ==
  IF p_player_id \notin DOMAIN ps
  THEN Outcome(rm, ps, Reply("draw", FALSE, "player_not_found", NoCard))
  ELSE IF Len(rm.deck) = 0 THEN Outcome(rm, ps, Reply("draw", FALSE, "deck_empty", NoCard))
  ELSE Outcome([rm EXCEPT !.deck = Tail(rm.deck)],
               [ps EXCEPT ![p_player_id].hand = Append(ps[p_player_id].hand, Head(rm.deck))],
               Reply("draw", TRUE, "drawn", Head(rm.deck)))

\* a variant of the draw that takes a second card off a deck of two or more
draw_burns_a_card(rm, ps, p_room_id, p_player_id) ==
  IF p_room_id # TheRoom THEN Outcome(rm, ps, Reply("draw", FALSE, "room_not_found", NoCard))
  ELSE IF p_player_id \notin DOMAIN ps
  THEN Outcome(rm, ps, Reply("draw", FALSE, "player_not_found", NoCard))
  ELSE IF Len(rm.deck) = 0 THEN Outcome(rm, ps, Reply("draw", FALSE, "deck_empty", NoCard))
  ELSE Outcome([rm EXCEPT !.deck = IF Len(rm.deck) > 1 THEN Tail(Tail(rm.deck)) ELSE Tail(rm.deck)],
               [ps EXCEPT ![p_player_id].hand = Append(@, Head(rm.deck))],
               Reply("draw", TRUE, "drawn", Head(rm.deck)))

\* a variant that draws the card at the back of the deck
draw_from_back(rm, ps, p_room_id, p_player_id) ==
  IF p_room_id # TheRoom THEN Outcome(rm, ps, Reply("draw", FALSE, "room_not_found", NoCard))
  ELSE IF p_player_id \notin DOMAIN ps
  THEN Outcome(rm, ps, Reply("draw", FALSE, "player_not_found", NoCard))
  ELSE IF Len(rm.deck) = 0 THEN Outcome(rm, ps, Reply("draw", FALSE, "deck_empty", NoCard))
  ELSE LET v_drawn_card == rm.deck[Len(rm.deck)]
           v_new_deck == SubSeq(rm.deck, 1, Len(rm.deck) - 1)
           v_new_hand == Append(ps[p_player_id].hand, v_drawn_card)
       IN Outcome([rm EXCEPT !.deck = v_new_deck],
                  [ps EXCEPT ![p_player_id].hand = v_new_hand],
                  Reply("draw", TRUE, "drawn", v_drawn_card))

atomic_draw_card(rm, ps, p_room_id, p_player_id) ==
  IF p_room_id # TheRoom THEN Outcome(rm, ps, Reply("draw", FALSE, "room_not_found", NoCard))
  ELSE IF p_player_id \notin DOMAIN ps
  THEN Outcome(rm, ps, Reply("draw", FALSE, "player_not_found", NoCard))
  ELSE IF Len(rm.deck) = 0 THEN Outcome(rm, ps, Reply("draw", FALSE, "deck_empty", NoCard))
  ELSE LET v_drawn_card == Head(rm.deck)
           v_new_deck == Tail(rm.deck)
           v_new_hand == Append(ps[p_player_id].hand, v_drawn_card)
       IN Outcome([rm EXCEPT !.deck = v_new_deck],
                  [ps EXCEPT ![p_player_id].hand = v_new_hand],
                  Reply("draw", TRUE, "drawn", v_drawn_card))

\* a variant that starts the exchange whether or not one has been held
exchange_every_time(v_room, v_next_round) ==
  IF v_next_round = ExchangeRound THEN "exchange"
  ELSE IF v_next_round = FinalRound /\ v_room.exchange_completed = TRUE THEN "resonance_final"
  ELSE v_room.status

\* the status the discard writes, from the round it computes
DiscardStatus(v_room, v_next_round) ==
  IF v_next_round = ExchangeRound /\ v_room.exchange_completed = FALSE THEN "exchange"
  ELSE IF v_next_round = FinalRound /\ v_room.exchange_completed = TRUE THEN "resonance_final"
  ELSE v_room.status

\* a variant that counts a round when the last seat gets the turn
round_counted_early(v_room, v_next_player) ==
  IF v_next_player = NumSeats - 1 THEN v_room.round_number + 1 ELSE v_room.round_number

\* the round the discard writes, from the seat it passes the turn to
DiscardRound(v_room, v_next_player) ==
  IF v_next_player = 0 THEN v_room.round_number + 1 ELSE v_room.round_number

atomic_discard_card(rm, ps, p_room_id, p_player_id, p_card_text) ==
  IF p_room_id # TheRoom THEN Outcome(rm, ps, Reply("discard", FALSE, "room_not_found", NoCard))
  ELSE IF p_player_id \notin DOMAIN ps
  THEN Outcome(rm, ps, Reply("discard", FALSE, "player_not_found", NoCard))
  ELSE IF ~Contains(ps[p_player_id].hand, p_card_text)
  THEN Outcome(rm, ps, Reply("discard", FALSE, "card_not_in_hand", NoCard))
  ELSE LET v_new_hand == RemoveAt(ps[p_player_id].hand, FirstIndex(ps[p_player_id].hand, p_card_text))
           v_new_discard_pile == Append(rm.discard_pile, p_card_text)
           v_next_player == (rm.current_turn_player + 1) % NumSeats
           v_next_round == DiscardRound(rm, v_next_player)
           v_new_status == DiscardStatus(rm, v_next_round)
       IN Outcome([rm EXCEPT !.discard_pile = v_new_discard_pile,
                             !.current_turn_player = v_next_player,
                             !.round_number = v_next_round,
                             !.status = v_new_status,
                             !.current_exchange_turn =
                                IF v_new_status = "exchange" THEN 0 ELSE @],
                  [ps EXCEPT ![p_player_id].hand = v_new_hand],
                  Reply("discard", TRUE, "discarded", p_card_text))

\* a variant that never finds the board card in another hand
held_by_nobody(ps, p_player_id, p_board_card_text) == FALSE

\* some other active player already holds the board card
HeldByOther(ps, p_player_id, p_board_card_text) ==
  \E q \in DOMAIN ps :
     q # p_player_id /\ ps[q].role = "player" /\ Contains(ps[q].hand, p_board_card_text)

atomic_exchange_card(rm, ps, p_room_id, p_player_id, p_hand_card_text, p_board_card_text) ==
  IF p_room_id # TheRoom THEN Outcome(rm, ps, Reply("exchange", FALSE, "room_not_found", NoCard))
  ELSE IF p_player_id \notin DOMAIN ps
  THEN Outcome(rm, ps, Reply("exchange", FALSE, "player_not_found", NoCard))
  ELSE IF ~Contains(ps[p_player_id].hand, p_hand_card_text)
  THEN Outcome(rm, ps, Reply("exchange", FALSE, "card_not_in_hand", NoCard))
  ELSE IF ~Contains(rm.discard_pile, p_board_card_text)
  THEN Outcome(rm, ps, Reply("exchange", FALSE, "card_not_on_board", NoCard))
  ELSE IF Count(rm.discard_pile, p_hand_card_text) > 0
  THEN Outcome(rm, ps, Reply("exchange", FALSE, "hand_card_already_on_board", NoCard))
  ELSE IF HeldByOther(ps, p_player_id, p_board_card_text)
  THEN Outcome(rm, ps, Reply("exchange", FALSE, "board_card_in_other_hand", NoCard))
  ELSE LET v_new_hand == ReplaceAt(ps[p_player_id].hand,
                                   FirstIndex(ps[p_player_id].hand, p_hand_card_text),
                                   p_board_card_text)
           v_new_discard_pile == ReplaceAt(rm.discard_pile,
                                           FirstIndex(rm.discard_pile, p_board_card_text),
                                           p_hand_card_text)
       IN Outcome([rm EXCEPT !.discard_pile = v_new_discard_pile],
                  [ps EXCEPT ![p_player_id].hand = v_new_hand],
                  Reply("exchange", TRUE, "exchanged", p_board_card_text))

\* ------------------------------------------------------------------ final phase
\* final_gifts_received, a jsonb array that is only ever appended to and
\* whose order nothing reads, is kept as the bag of its elements.
\* the trimming of the message is left out
trim_left_out(p_message) == p_message

Trim(p_message) == IF p_message = "blank" THEN "" ELSE p_message

Messages == {"thanks", "blank"}

\* active players other than the turn player who have given their gift
GiftCount(rm, ps) ==
  Cardinality({q \in DOMAIN ps : /\ ps[q].role = "player"
                                 /\ ps[q].player_number # rm.final_phase_turn
                                 /\ ps[q].has_given_final_gift})

share_final_resonance(rm, ps, p_room_id, p_player_id) ==
  IF p_room_id # TheRoom THEN Outcome(rm, ps, Reply("resonance", FALSE, "room_not_found", NoCard))
  ELSE IF rm.final_phase_step # "sharing"
  THEN Outcome(rm, ps, Reply("resonance", FALSE, "not_sharing_step", NoCard))
  ELSE IF p_player_id \notin DOMAIN ps
  THEN Outcome(rm, ps, Reply("resonance", FALSE, "player_not_found", NoCard))
  ELSE IF ps[p_player_id].player_number # rm.final_phase_turn
  THEN Outcome(rm, ps, Reply("resonance", FALSE, "not_your_turn", NoCard))
  ELSE IF ps[p_player_id].has_shared_final_resonance
  THEN Outcome(rm, ps, Reply("resonance", FALSE, "already_shared", NoCard))
  ELSE Outcome([rm EXCEPT !.final_phase_step = "gifting"],
               [ps EXCEPT ![p_player_id].has_shared_final_resonance = TRUE],
               Reply("resonance", TRUE, "shared", NoCard))

give_final_message_gift(rm, ps, p_room_id, p_from_player_id, p_to_player_id, p_message) ==
  IF p_room_id # TheRoom THEN Outcome(rm, ps, Reply("gift", FALSE, "room_not_found", NoCard))
  ELSE IF rm.final_phase_step # "gifting"
  THEN Outcome(rm, ps, Reply("gift", FALSE, "not_gifting_step", NoCard))
  ELSE IF p_from_player_id \notin DOMAIN ps
  THEN Outcome(rm, ps, Reply("gift", FALSE, "sender_not_found", NoCard))
  ELSE IF p_to_player_id \notin DOMAIN ps
  THEN Outcome(rm, ps, Reply("gift", FALSE, "recipient_not_found", NoCard))
  ELSE IF ps[p_to_player_id].player_number # rm.final_phase_turn
  THEN Outcome(rm, ps, Reply("gift", FALSE, "recipient_not_turn_player", NoCard))
  ELSE IF p_from_player_id = p_to_player_id
  THEN Outcome(rm, ps, Reply("gift", FALSE, "gift_to_self", NoCard))
  ELSE IF ps[p_from_player_id].has_given_final_gift
  THEN Outcome(rm, ps, Reply("gift", FALSE, "already_given", NoCard))
  ELSE IF Trim(p_message) = ""
  THEN Outcome(rm, ps, Reply("gift", FALSE, "empty_message", NoCard))
  ELSE LET v_new_gifts == ps[p_to_player_id].final_gifts_received (+)
                            SetToBag({[from_player_id |-> p_from_player_id,
                                       message |-> p_message]})
           ps2 == [ps EXCEPT ![p_from_player_id].has_given_final_gift = TRUE,
                             ![p_to_player_id].final_gifts_received = v_new_gifts]
           v_all_gifted == GiftCount(rm, ps2) >= GiftsPerTurn
       IN Outcome([rm EXCEPT !.final_phase_step = IF v_all_gifted THEN "reflection" ELSE @],
                  ps2,
                  Reply("gift", TRUE, "given", NoCard))

share_final_reflection(rm, ps, p_room_id, p_player_id) ==
  IF p_room_id # TheRoom THEN Outcome(rm, ps, Reply("reflection", FALSE, "room_not_found", NoCard))
  ELSE IF rm.final_phase_step # "reflection"
  THEN Outcome(rm, ps, Reply("reflection", FALSE, "not_reflection_step", NoCard))
  ELSE IF p_player_id \notin DOMAIN ps
  THEN Outcome(rm, ps, Reply("reflection", FALSE, "player_not_found", NoCard))
  ELSE IF ps[p_player_id].player_number # rm.final_phase_turn
  THEN Outcome(rm, ps, Reply("reflection", FALSE, "not_your_turn", NoCard))
  ELSE LET v_next_turn == rm.final_phase_turn + 1
           ps2 == [ps EXCEPT ![p_player_id].final_reflection_text = TRUE]
       IN IF v_next_turn >= NumSeats
          THEN Outcome([rm EXCEPT !.status = "complete",
                                  !.final_phase_turn = 0,
                                  !.final_phase_step = "sharing"],
                       ps2,
                       Reply("reflection", TRUE, "reflected", NoCard))
          ELSE Outcome([rm EXCEPT !.final_phase_turn = v_next_turn,
                                  !.final_phase_step = "sharing"],
                       [q \in DOMAIN ps2 |->
                          IF ps2[q].role = "player"
                          THEN [ps2[q] EXCEPT !.has_given_final_gift = FALSE]
                          ELSE ps2[q]],
                       Reply("reflection", TRUE, "reflected", NoCard))

\* ------------------------------------------------------------------ initial rows
Statuses == <<"waiting", "checkin", "voting", "voting_result", "resonance_initial",
              "playing", "exchange", "resonance_final", "gift_exchange", "complete">>

NoVote == 0 - 1

\* a client: the status its screen shows, where its running handler stands,
\* the handler's locals, its screen's attempted-once flag, the number of rows
\* its last conditional room update returned, and whether an update whose
\* response was lost is still on its way to the server
NoRows == 0 - 1

NewClient == [view |-> "waiting", pc |-> "idle", deck |-> <<>>, chosen |-> 0,
              attempted |-> FALSE, turn |-> 0, updatedRoom |-> NoRows, orphan |-> FALSE,
              timer |-> "none"]

NoTxn == [pc |-> "idle", overlapped |-> FALSE, op |-> "none", player |-> NoPlayer, card |-> NoCard,
          v_room |-> NewRoom(<<>>), v_player |-> NewPlayer(NoPlayer), reply |-> NoReply]

\* per conditional transition: how many writes took effect, and whether an
\* attempt declined or affected no row
NoFired == [checkin |-> 0, voting_result |-> 0, resonance_initial |-> 0,
            missed |-> {}]

\* what the subscription hands a screen: the room row and the exchange log
Snapshot(rm, log) == [room |-> rm, exchangeActions |-> log]

\* what every specification leaves at rest unless it says otherwise
Idle ==
  /\ votes = [p \in PlayerIds |-> NoVote]
  /\ resonance_shares = {}
  /\ timeLeft = 1
  /\ exchange_actions = <<>>
  /\ seen = [c \in Seats |-> Snapshot(room, exchange_actions)]
  /\ result = NoReply
  /\ clients = [c \in PlayerIds |-> NewClient]
  /\ txns = [t \in 1..MaxCalls |-> NoTxn]
  /\ ops = 0
  /\ discards = 0
  /\ fired = NoFired

\* an RPC runs as one transaction: its rows and its reply appear together
Commit(o, args) ==
  /\ room' = o.room
  /\ players' = o.players
  /\ result' = [o.reply EXCEPT !.args = args]
  /\ discards' = IF o.reply.op = "discard" /\ o.reply.success THEN discards + 1 ELSE discards

\* ------------------------------------------------------------------ SpecCards
\* Any seat, in or out of turn, calls any procedure on the dealt room.
InitCards == room = DealtRoom /\ players = DealtPlayers /\ Idle

Callers == Seats \cup {NoPlayer}

HandArgs(p) == IF p \in DOMAIN players THEN Range(players[p].hand) \cup {NoCard} ELSE {NoCard}

BoardArgs == Range(room.discard_pile) \cup {NoCard}

Counted == ops < MaxOps /\ ops' = ops + 1 /\ UNCHANGED <<votes, timeLeft, resonance_shares, exchange_actions, seen, clients, txns, fired>>

CallDraw ==
  \E r \in RoomArgs, p \in Callers :
     Counted /\ Commit(atomic_draw_card(room, players, r, p), <<r, p>>)

CallDiscard ==
  \E r \in RoomArgs, p \in Callers : \E c \in HandArgs(p) :
     Counted /\ Commit(atomic_discard_card(room, players, r, p, c), <<r, p, c>>)

CallExchange ==
  \E r \in RoomArgs, p \in Callers : \E h \in HandArgs(p), b \in BoardArgs :
     Counted /\ Commit(atomic_exchange_card(room, players, r, p, h, b), <<r, p, h, b>>)

CallResonance ==
  \E r \in RoomArgs, p \in PlayerArgs :
     Counted /\ Commit(share_final_resonance(room, players, r, p), <<r, p>>)

CallGift ==
  \E r \in RoomArgs, from \in PlayerArgs, to \in PlayerArgs, m \in Messages :
     Counted /\ Commit(give_final_message_gift(room, players, r, from, to, m), <<r, from, to, m>>)

CallReflection ==
  \E r \in RoomArgs, p \in PlayerArgs :
     Counted /\ Commit(share_final_reflection(room, players, r, p), <<r, p>>)

NextCards ==
  \/ CallDraw
  \/ CallDiscard
  \/ CallExchange
  \/ CallResonance
  \/ CallGift
  \/ CallReflection

SpecCards == InitCards /\ [][NextCards]_vars

\* ------------------------------------------------------------------ card conservation
ActiveHands(ps) == {q \in DOMAIN ps : ps[q].role = "player"}

RECURSIVE SumOver(_, _)
SumOver(f, S) == IF S = {} THEN 0 ELSE LET x == CHOOSE y \in S : TRUE IN f[x] + SumOver(f, S \ {x})

\* how many times a card name occurs in deck, discard pile and active hands
Occurrences(rm, ps, c) ==
  Count(rm.deck, c) + Count(rm.discard_pile, c)
    + SumOver([q \in ActiveHands(ps) |-> Count(ps[q].hand, c)], ActiveHands(ps))

Calls == 1..MaxCalls

HoldsRoomLock(u) == txns[u].pc \in {"room_locked", "player_locked"}

HoldsPlayerLock(u, p) == txns[u].pc = "player_locked" /\ txns[u].player = p

\* a variant in which FOR UPDATE on the room row never waits
room_lock_ignored(t) == TRUE

RoomLockFree(t) == \A u \in Calls \ {t} : ~HoldsRoomLock(u)

PlayerLockFree(t, p) == \A u \in Calls \ {t} : ~HoldsPlayerLock(u, p)

\* the procedure body of an invocation, run on the rows rm, ps
Run(rm, ps, call) ==
  IF call.op = "draw" THEN atomic_draw_card(rm, ps, TheRoom, call.player)
  ELSE atomic_discard_card(rm, ps, TheRoom, call.player, call.card)

InitLock == room = DealtRoom /\ players = DealtPlayers /\ Idle

Quiet == UNCHANGED <<votes, timeLeft, resonance_shares, exchange_actions, seen, clients, ops, fired>>

Invoke(t) ==
  \E op \in {"draw", "discard"}, p \in Callers : \E c \in HandArgs(p) :
     /\ txns[t].pc = "idle"
     /\ op = "draw" => c = NoCard
     /\ txns' = [txns EXCEPT ![t] = [NoTxn EXCEPT !.pc = "called", !.op = op,
                                                  !.player = p, !.card = c,
                                                  !.overlapped = ~RoomLockFree(t)]]
     /\ UNCHANGED <<room, players, result, discards>>
     /\ Quiet

LockRoom(t) ==
  /\ txns[t].pc = "called"
  /\ RoomLockFree(t)
  /\ txns' = [txns EXCEPT ![t].pc = "room_locked", ![t].v_room = room]
  /\ UNCHANGED <<room, players, result, discards>>
  /\ Quiet

LockPlayer(t) ==
  /\ txns[t].pc = "room_locked"
  /\ IF txns[t].player \notin DOMAIN players
     THEN /\ txns' = [txns EXCEPT ![t].pc = "done",
                                  ![t].reply = Run(txns[t].v_room, players, txns[t]).reply]
          /\ result' = Run(txns[t].v_room, players, txns[t]).reply
     ELSE /\ PlayerLockFree(t, txns[t].player)
          /\ txns' = [txns EXCEPT ![t].pc = "player_locked",
                                  ![t].v_player = players[txns[t].player]]
          /\ UNCHANGED result
  /\ UNCHANGED <<room, players, discards>>
  /\ Quiet

\* the checks and the UPDATEs, on the rows read under the locks; an UPDATE
\* writes only the columns it names
Body(t) ==
  /\ txns[t].pc = "player_locked"
  /\ LET p == txns[t].player
         o == Run(txns[t].v_room, [players EXCEPT ![p] = txns[t].v_player], txns[t])
     IN /\ room' = IF ~o.reply.success THEN room
                   ELSE IF txns[t].op = "draw" THEN [room EXCEPT !.deck = o.room.deck]
                   ELSE [room EXCEPT !.discard_pile = o.room.discard_pile,
                                     !.current_turn_player = o.room.current_turn_player,
                                     !.round_number = o.room.round_number,
                                     !.status = o.room.status,
                                     !.current_exchange_turn = o.room.current_exchange_turn]
        /\ players' = IF o.reply.success THEN [players EXCEPT ![p].hand = o.players[p].hand]
                      ELSE players
        /\ result' = o.reply
        /\ discards' = IF o.reply.op = "discard" /\ o.reply.success THEN discards + 1
                       ELSE discards
        /\ txns' = [txns EXCEPT ![t].pc = "done", ![t].reply = o.reply]
  /\ Quiet

NextLock ==
  \/ \E t \in Calls : Invoke(t)
  \/ \E t \in Calls : LockRoom(t)
  \/ \E t \in Calls : LockPlayer(t)
  \/ \E t \in Calls : Body(t)

SpecLock == InitLock /\ [][NextLock]_vars

\* all orders in which the invocations can be run one after the other
Orders == {f \in [Calls -> Calls] : \A a, b \in Calls : a # b => f[a] # f[b]}

RECURSIVE RunInOrder(_, _, _, _)
\* rows and replies after running invocations f[k], .., f[MaxCalls] in turn
RunInOrder(rm, ps, f, k) ==
  IF k > MaxCalls THEN [room |-> rm, players |-> ps, replies |-> [t \in {} |-> NoReply]]
  ELSE LET o == Run(rm, ps, txns[f[k]])
           rest == RunInOrder(o.room, o.players, f, k + 1)
       IN [rest EXCEPT !.replies = [t \in DOMAIN rest.replies \cup {f[k]} |->
                                      IF t = f[k] THEN o.reply ELSE rest.replies[t]]]

AllDone == \A t \in Calls : txns[t].pc = "done"

Serialised ==
  \E f \in Orders :
     LET seq == RunInOrder(DealtRoom, DealtPlayers, f, 1)
     IN /\ room = seq.room
        /\ players = seq.players
        /\ \A t \in Calls : txns[t].reply = seq.replies[t]

DrawsDone == AllDone /\ \A t \in Calls : txns[t].op = "draw" /\ txns[t].reply.success

\* C5: concurrent invocations are serialised by the room row lock: when all
\* have returned, rows and replies equal those of running them one after the
\* other in some order; concurrent draws return different cards, each drawn
\* card is in exactly one hand and the deck is shorter by one per draw.
C5_Serialised ==
  /\ AllDone => Serialised
  /\ DrawsDone =>
       /\ \A t, u \in Calls : t # u => txns[t].reply.card # txns[u].reply.card
       /\ \A t \in Calls :
            /\ Occurrences(room, players, txns[t].reply.card) = 1
            /\ Contains(players[txns[t].player].hand, txns[t].reply.card)
       /\ Len(room.deck) = Len(DealtRoom.deck) - MaxCalls

\* two draws by the same player have returned, one of them issued while the
\* other held the room lock
C5_Witness ==
  /\ DrawsDone
  /\ \A t, u \in Calls : txns[t].player = txns[u].player
  /\ \E t \in Calls : txns[t].overlapped

\* ------------------------------------------------------------------ clients
\* Each participant runs one client. A client renders the screen of the
\* status it last saw; its handlers are asynchronous, one database
\* statement per step.
purposeCards == [i \in 1..PurposeCount |-> i]

VoteIndexes == 0..MaxCardIndex

VoteCount(vs, i) == Cardinality({p \in DOMAIN vs : vs[p] = i})

OptionIndexes == 0..(PurposeCount - 1)

\* plurality with the lowest index on a tie, index 0 without votes
WinningIndex(vs) ==
  IF \A p \in DOMAIN vs : vs[p] = NoVote THEN 0
  ELSE CHOOSE i \in OptionIndexes :
         /\ VoteCount(vs, i) > 0
         /\ \A j \in OptionIndexes :
              \/ VoteCount(vs, j) < VoteCount(vs, i)
              \/ VoteCount(vs, j) = VoteCount(vs, i) /\ i <= j

\* the tally of handleAutoDecision: the votes counted per index, then one
\* pass over the entries (integer keys come in ascending order) that keeps
\* the best entry so far; null is NoVote
voteCounts(vs) ==
  [i \in {vs[p] : p \in {q \in DOMAIN vs : vs[q] # NoVote}} |-> VoteCount(vs, i)]

\* a pass in which an entry with as many votes replaces the one kept
later_tie_wins(count, cardIndex, maxVotes, winning) ==
  winning = NoVote \/ count >= maxVotes

Better(count, cardIndex, maxVotes, winning) ==
  \/ winning = NoVote
  \/ count > maxVotes
  \/ count = maxVotes /\ cardIndex < winning

RECURSIVE forEachEntry(_, _, _, _)
forEachEntry(counts, keys, maxVotes, winning) ==
  IF keys = {} THEN winning
  ELSE LET cardIndex == CHOOSE k \in keys : \A j \in keys : k <= j
       IN IF Better(counts[cardIndex], cardIndex, maxVotes, winning)
          THEN forEachEntry(counts, keys \ {cardIndex}, counts[cardIndex], cardIndex)
          ELSE forEachEntry(counts, keys \ {cardIndex}, maxVotes, winning)

winningCardIndex(vs, cardOptions) ==
  LET counts == voteCounts(vs)
      w == IF DOMAIN counts = {} THEN 0
           ELSE forEachEntry(counts, DOMAIN counts, 0, NoVote)
  IN IF w = NoVote \/ w < 0 \/ w >= Len(cardOptions) THEN 0 ELSE w

one_vote_is_enough(vs, ps) == \E p \in DOMAIN vs : vs[p] # NoVote

allVoted(vs, ps) ==
  Cardinality({p \in DOMAIN vs : vs[p] # NoVote})
    = Cardinality({q \in DOMAIN ps : ps[q].role # "spectator"})

someone_checked_in(ps) == \E q \in DOMAIN ps : ps[q].has_checked_in

allCheckedIn(ps) == \A q \in DOMAIN ps : ps[q].role = "player" => ps[q].has_checked_in

allReadyInDb(ps) == \A q \in DOMAIN ps : ps[q].role = "player" => ps[q].ready_for_next_phase

\* a variant in which the conditional update has lost its status filter
cas_unfiltered(rm, expected) == TRUE

\* the filter .eq('status', expected) of a conditional update
CasApplies(rm, expected) == rm.status = expected

Bump(target) == [fired EXCEPT ![target] = @ + 1]

Miss(target) == [fired EXCEPT !.missed = @ \cup {target}]

\* a handler that has returned keeps no locals
Returned(cl, c) == [cl EXCEPT ![c].pc = "idle", ![c].deck = <<>>, ![c].chosen = 0]

ClientOnly == UNCHANGED <<room, players, votes, timeLeft, resonance_shares, exchange_actions, seen, result, txns, ops, discards, fired>>

ClientQuiet == UNCHANGED <<room, players, votes, timeLeft, resonance_shares, exchange_actions, seen, result, txns, ops, discards>>

NoRpc == UNCHANGED <<result, txns, ops, discards>>

\* sets of clients the next room event may fail to reach in time: any of the
\* MaxStale last-joined ones
Lags == SUBSET {c \in PlayerIds : c > Spectator - MaxStale}

\* the realtime subscription delivers the room row to every client outside L;
\* a screen that changes mounts afresh
Delivered(cl, status, L) ==
  [c \in PlayerIds |->
     IF c \in L \/ cl[c].view = status THEN cl[c]
     ELSE [cl[c] EXCEPT !.view = status, !.attempted = FALSE]]

InFlight == Cardinality({c \in PlayerIds : clients[c].pc # "idle"})

CanStart(c) == clients[c].pc = "idle" /\ InFlight < MaxRacers

\* a late event or the fallback poll brings a lagging screen up to date
Sync(c) ==
  /\ clients[c].view # room.status
  /\ clients' = [clients EXCEPT ![c].view = room.status, ![c].attempted = FALSE]
  /\ ClientOnly

everyone_leads(ps, c) == TRUE

isLeader(ps, c) == ps[c].player_number = 0

\* the handler has returned and the screen keeps the row count of its update
Updated(cl, c, n) == [Returned(cl, c) EXCEPT ![c].updatedRoom = n]

\* WaitingRoom: four players present
handleGameStart(c) ==
  /\ clients[c].view = "waiting" /\ CanStart(c) /\ ~clients[c].attempted
  /\ clients' = [clients EXCEPT
        ![c].attempted = TRUE,
        ![c].pc = IF room.status = "waiting" /\ isLeader(players, c)
                  THEN "init_read" ELSE "idle"]
  /\ ClientOnly

executeGameInitialization_read(c) ==
  /\ clients[c].pc = "init_read"
  /\ clients' = IF room.status = "waiting" THEN [clients EXCEPT ![c].pc = "init_cas"]
                ELSE Returned(clients, c)
  /\ fired' = IF room.status = "waiting" THEN fired ELSE Miss("checkin")
  /\ ClientQuiet

executeGameInitialization_update(c) ==
  /\ clients[c].pc = "init_cas"
  /\ IF CasApplies(room, "waiting")
     THEN /\ room' = [room EXCEPT !.status = "checkin"]
          /\ fired' = Bump("checkin")
          /\ \E L \in Lags : clients' = Delivered(Updated(clients, c, 1), room'.status, L)
     ELSE /\ UNCHANGED room
          /\ fired' = Miss("checkin")
          /\ clients' = Updated(clients, c, 0)
  /\ UNCHANGED <<players, votes, timeLeft, resonance_shares, exchange_actions, seen>>
  /\ NoRpc

\* the update is sent and its response is lost: the request stays on its way
\* and the handler takes its error path
executeGameInitialization_lost(c) ==
  /\ clients[c].pc = "init_cas" /\ ~clients[c].orphan
  /\ clients' = [clients EXCEPT ![c].pc = "init_error", ![c].orphan = TRUE]
  /\ ClientOnly

\* error path: someone else may have succeeded
executeGameInitialization_error(c) ==
  /\ clients[c].pc = "init_error"
  /\ clients' = IF room.status = "checkin" THEN Returned(clients, c)
                ELSE [clients EXCEPT ![c].pc = "init_catch"]
  /\ ClientOnly

\* catch: a last look, then the screen may try again
executeGameInitialization_catch(c) ==
  /\ clients[c].pc = "init_catch"
  /\ clients' = IF room.status = "checkin" THEN Returned(clients, c)
                ELSE [Returned(clients, c) EXCEPT ![c].attempted = FALSE]
  /\ ClientOnly

\* the update whose response was lost reaches the server
lateUpdate(c) ==
  /\ clients[c].orphan
  /\ IF CasApplies(room, "waiting")
     THEN /\ room' = [room EXCEPT !.status = "checkin"]
          /\ fired' = Bump("checkin")
          /\ \E L \in Lags :
               clients' = Delivered([clients EXCEPT ![c].orphan = FALSE], room'.status, L)
     ELSE /\ UNCHANGED room
          /\ fired' = Miss("checkin")
          /\ clients' = [clients EXCEPT ![c].orphan = FALSE]
  /\ UNCHANGED <<players, votes, timeLeft, resonance_shares, exchange_actions, seen>>
  /\ NoRpc

\* CheckIn
handleCheckIn(c) ==
  /\ clients[c].view = "checkin"
  /\ players[c].role = "player" /\ ~players[c].has_checked_in
  /\ players' = [players EXCEPT ![c].has_checked_in = TRUE]
  /\ UNCHANGED <<room, votes, timeLeft, resonance_shares, exchange_actions, seen, clients, fired>>
  /\ NoRpc

startVoting(c) ==
  /\ clients[c].view = "checkin"
  /\ allCheckedIn(players)
  /\ room' = [room EXCEPT !.status = "voting", !.card_options = purposeCards]
  /\ \E L \in Lags : clients' = Delivered(clients, room'.status, L)
  /\ UNCHANGED <<players, votes, timeLeft, resonance_shares, exchange_actions, seen, fired>>
  /\ NoRpc

\* PurposeVoting
submitVote(c) ==
  \E selectedCard \in VoteIndexes :
     /\ clients[c].view = "voting"
     /\ players[c].role = "player" /\ votes[c] = NoVote
     /\ votes' = [votes EXCEPT ![c] = selectedCard]
     /\ UNCHANGED <<resonance_shares, exchange_actions, seen, timeLeft>>
     /\ UNCHANGED <<room, players, clients, fired>>
     /\ NoRpc

\* the countdown, which every screen computes from the same start, reaches zero
updateTime ==
  /\ room.status = "voting"
  /\ timeLeft > 0
  /\ timeLeft' = 0
  /\ UNCHANGED <<room, players, votes, result, clients, txns, ops, discards, fired,
                 resonance_shares, exchange_actions, seen>>

timer_filter_dropped(rm) == TRUE

\* the filter .is('voting_started_at', null)
TimerUnset(rm) == rm.voting_started_at = NoTime

\* the reading of client c's clock
Now(c) == c + 1

\* the timer effect of a voting screen: a stored anchor is used as it is,
\* otherwise the screen sends its own
initializeTimer(c) ==
  /\ clients[c].view = "voting" /\ clients[c].timer = "none"
  /\ clients' = [clients EXCEPT ![c].timer = IF room.voting_started_at = NoTime
                                              THEN "sent" ELSE "read"]
  /\ ClientOnly

initializeTimer_update(c) ==
  /\ clients[c].timer = "sent"
  /\ IF CasApplies(room, "voting") /\ TimerUnset(room)
     THEN /\ room' = [room EXCEPT !.voting_started_at = Now(c)]
          /\ clients' = [clients EXCEPT ![c].timer = "stored"]
     ELSE /\ UNCHANGED room
          /\ clients' = [clients EXCEPT ![c].timer = "local"]
  /\ UNCHANGED <<players, votes, timeLeft, resonance_shares, exchange_actions, seen, fired>>
  /\ NoRpc

\* everyone voted or the shared timer ran out: tally, then resolve
handleAutoDecision(c) ==
  /\ clients[c].view = "voting" /\ CanStart(c) /\ ~clients[c].attempted
  /\ allVoted(votes, players) \/ timeLeft = 0
  /\ Len(room.card_options) > 0
  /\ clients' = [clients EXCEPT ![c].attempted = TRUE,
                                ![c].chosen = room.card_options[
                                                winningCardIndex(votes, room.card_options) + 1],
                                ![c].pc = "decide_status"]
  /\ ClientOnly

handleAutoDecision_status(c) ==
  /\ clients[c].pc = "decide_status"
  /\ clients' = IF room.status = "voting" THEN [clients EXCEPT ![c].pc = "decide_deck"]
                ELSE Returned(clients, c)
  /\ fired' = IF room.status = "voting" THEN fired ELSE Miss("voting_result")
  /\ ClientQuiet

handleAutoDecision_deck(c) ==
  /\ clients[c].pc = "decide_deck"
  /\ clients' = IF dealInitialHands(room.deck).ok
                THEN [clients EXCEPT ![c].pc = "decide_hands", ![c].deck = room.deck]
                ELSE Returned(clients, c)
  /\ fired' = IF dealInitialHands(room.deck).ok THEN fired ELSE Miss("deal")
  /\ ClientQuiet

handleAutoDecision_hands(c) ==
  /\ clients[c].pc = "decide_hands"
  /\ players' = [q \in DOMAIN players |->
                   IF players[q].role = "player"
                   THEN [players[q] EXCEPT
                           !.hand = dealInitialHands(clients[c].deck).hands[players[q].player_number + 1]]
                   ELSE players[q]]
  /\ clients' = [clients EXCEPT ![c].pc = "decide_cas"]
  /\ UNCHANGED <<room, votes, timeLeft, resonance_shares, exchange_actions, seen, fired>>
  /\ NoRpc

handleAutoDecision_update(c) ==
  /\ clients[c].pc = "decide_cas"
  /\ IF CasApplies(room, "voting")
     THEN /\ room' = [room EXCEPT !.purpose_card = clients[c].chosen,
                                  !.status = "voting_result",
                                  !.discard_pile = <<>>,
                                  !.deck = dealInitialHands(clients[c].deck).remainingDeck]
          /\ fired' = Bump("voting_result")
          /\ \E L \in Lags : clients' = Delivered(Returned(clients, c), room'.status, L)
     ELSE /\ UNCHANGED room
          /\ fired' = Miss("voting_result")
          /\ clients' = Returned(clients, c)
  /\ UNCHANGED <<players, votes, timeLeft, resonance_shares, exchange_actions, seen>>
  /\ NoRpc

\* VotingResult: three seconds after the screen appeared
transitionToResonance(c) ==
  /\ clients[c].view = "voting_result" /\ CanStart(c) /\ ~clients[c].attempted
  /\ clients' = [clients EXCEPT
        ![c].attempted = TRUE,
        ![c].pc = IF room.status = "voting_result" THEN "resonance_cas" ELSE "idle"]
  /\ fired' = IF room.status = "voting_result" THEN fired ELSE Miss("resonance_initial")
  /\ ClientQuiet

transitionToResonance_update(c) ==
  /\ clients[c].pc = "resonance_cas"
  /\ IF CasApplies(room, "voting_result")
     THEN /\ room' = [room EXCEPT !.status = "resonance_initial"]
          /\ fired' = Bump("resonance_initial")
          /\ \E L \in Lags : clients' = Delivered(Returned(clients, c), room'.status, L)
     ELSE /\ UNCHANGED room
          /\ fired' = Miss("resonance_initial")
          /\ clients' = Returned(clients, c)
  /\ UNCHANGED <<players, votes, timeLeft, resonance_shares, exchange_actions, seen>>
  /\ NoRpc

\* ResonanceSharing (initial phase)
handleNextPhase(c) ==
  /\ clients[c].view = "resonance_initial" /\ CanStart(c) /\ ~clients[c].attempted
  /\ ~players[c].ready_for_next_phase
  /\ players' = [players EXCEPT ![c].ready_for_next_phase = TRUE]
  /\ clients' = [clients EXCEPT ![c].attempted = TRUE, ![c].pc = "next_read"]
  /\ UNCHANGED <<room, votes, timeLeft, resonance_shares, exchange_actions, seen, fired>>
  /\ NoRpc

handleNextPhase_read(c) ==
  /\ clients[c].pc = "next_read"
  /\ clients' = [clients EXCEPT ![c].pc = IF allReadyInDb(players) THEN "next_reset" ELSE "idle"]
  /\ ClientOnly

handleNextPhase_reset(c) ==
  /\ clients[c].pc = "next_reset"
  /\ players' = [q \in DOMAIN players |-> [players[q] EXCEPT !.ready_for_next_phase = FALSE]]
  /\ clients' = [clients EXCEPT ![c].pc = "next_write"]
  /\ UNCHANGED <<room, votes, timeLeft, resonance_shares, exchange_actions, seen, fired>>
  /\ NoRpc

handleNextPhase_update(c) ==
  /\ clients[c].pc = "next_write"
  /\ room' = [room EXCEPT !.status = "playing"]
  /\ \E L \in Lags : clients' = Delivered(Returned(clients, c), room'.status, L)
  /\ UNCHANGED <<players, votes, timeLeft, resonance_shares, exchange_actions, fired>>
  /\ NoRpc

\* ------------------------------------------------------------------ SpecClients
\* From the full room (four seats and a spectator joined) to the start of play.
InitClients ==
  /\ room = NewRoom(CARD_LIST)
  /\ players = [id \in PlayerIds |-> NewPlayer(id)]
  /\ Idle

NextClients ==
  \/ \E c \in PlayerIds : Sync(c)
  \/ \E c \in PlayerIds : handleGameStart(c)
  \/ \E c \in PlayerIds : executeGameInitialization_read(c)
  \/ \E c \in PlayerIds : executeGameInitialization_update(c)
  \/ \E c \in PlayerIds : handleCheckIn(c)
  \/ \E c \in PlayerIds : startVoting(c)
  \/ \E c \in PlayerIds : submitVote(c)
  \/ updateTime
  \/ \E c \in PlayerIds : handleAutoDecision(c)
  \/ \E c \in PlayerIds : handleAutoDecision_status(c)
  \/ \E c \in PlayerIds : handleAutoDecision_deck(c)
  \/ \E c \in PlayerIds : handleAutoDecision_hands(c)
  \/ \E c \in PlayerIds : handleAutoDecision_update(c)
  \/ \E c \in PlayerIds : transitionToResonance(c)
  \/ \E c \in PlayerIds : transitionToResonance_update(c)

SpecClients == InitClients /\ [][NextClients]_vars

\* ------------------------------------------------------------------ SpecReady
\* From the initial resonance sharing to the start of play.
SharingRoom == [DealtRoom EXCEPT !.status = "resonance_initial", !.card_options = purposeCards]

InitReady ==
  /\ room = SharingRoom
  /\ players = [id \in PlayerIds |-> [DealtPlayers[id] EXCEPT !.has_checked_in = (id \in Seats)]]
  /\ votes = [p \in PlayerIds |-> NoVote]
  /\ resonance_shares = {}
  /\ timeLeft = 1
  /\ exchange_actions = <<>>
  /\ seen = [c \in Seats |-> Snapshot(room, exchange_actions)]
  /\ result = NoReply
  /\ clients = [c \in PlayerIds |-> [NewClient EXCEPT !.view = "resonance_initial"]]
  /\ txns = [t \in 1..MaxCalls |-> NoTxn]
  /\ ops = 0
  /\ discards = 0
  /\ fired = [NoFired EXCEPT !.checkin = 1, !.voting_result = 1, !.resonance_initial = 1]

NextReady ==
  \/ \E c \in PlayerIds : Sync(c)
  \/ \E c \in PlayerIds : handleNextPhase(c)
  \/ \E c \in PlayerIds : handleNextPhase_read(c)
  \/ \E c \in PlayerIds : handleNextPhase_reset(c)
  \/ \E c \in PlayerIds : handleNextPhase_update(c) /\ UNCHANGED seen

SpecReady == InitReady /\ [][NextReady]_vars

\* ------------------------------------------------------------------ SpecCond
\* The same clients, none of which presses the CheckIn button on an
\* outdated screen.
startVoting_current(c) == room.status = "checkin" /\ startVoting(c)

NextCond ==
  \/ \E c \in PlayerIds : Sync(c)
  \/ \E c \in PlayerIds : handleGameStart(c)
  \/ \E c \in PlayerIds : executeGameInitialization_read(c)
  \/ \E c \in PlayerIds : executeGameInitialization_update(c)
  \/ \E c \in PlayerIds : handleCheckIn(c)
  \/ \E c \in PlayerIds : startVoting_current(c)
  \/ \E c \in PlayerIds : submitVote(c)
  \/ updateTime
  \/ \E c \in PlayerIds : handleAutoDecision(c)
  \/ \E c \in PlayerIds : handleAutoDecision_status(c)
  \/ \E c \in PlayerIds : handleAutoDecision_deck(c)
  \/ \E c \in PlayerIds : handleAutoDecision_hands(c)
  \/ \E c \in PlayerIds : handleAutoDecision_update(c)
  \/ \E c \in PlayerIds : transitionToResonance(c)
  \/ \E c \in PlayerIds : transitionToResonance_update(c)

SpecCond == InitClients /\ [][NextCond]_vars

\* ------------------------------------------------------------------ phase order
\* position of a room in the phase order; play after the exchange comes
\* later than play before it
Phase(rm) ==
  CASE rm.status = "waiting" -> 0
    [] rm.status = "checkin" -> 1
    [] rm.status = "voting" -> 2
    [] rm.status = "voting_result" -> 3
    [] rm.status = "resonance_initial" -> 4
    [] rm.status = "playing" /\ ~rm.exchange_completed -> 5
    [] rm.status = "exchange" -> 6
    [] rm.status = "playing" /\ rm.exchange_completed -> 7
    [] rm.status = "resonance_final" -> 8
    [] rm.status = "gift_exchange" -> 9
    [] OTHER -> 10

\* C2: every client status write is conditioned on the status its writer
\* expected, so in every interleaving, stale and delayed writers included,
\* the room never moves back to an earlier phase.
C2_NeverBack == [][Phase(room') >= Phase(room)]_vars

ConditionalTargets == {"checkin", "voting_result", "resonance_initial"}

ExpectedBefore(target) ==
  CASE target = "checkin" -> "waiting"
    [] target = "voting_result" -> "voting"
    [] target = "resonance_initial" -> "voting_result"

C4_AtomicResolution ==
  (\E q \in Seats : Len(players[q].hand) > 0) =>
     room.status # "voting" /\ Len(room.deck) # EXPECTED_DECK_SIZE

\* ------------------------------------------------------------------ SpecDup
\* Play has begun while one client's vote resolution, which read status
\* voting and the full deck before the winning resolution committed, has
\* still to write the hands it dealt.
Straggler == Spectator

InitDup ==
  /\ room = [DealtRoom EXCEPT !.card_options = purposeCards]
  /\ players = [id \in PlayerIds |-> [DealtPlayers[id] EXCEPT !.has_checked_in = (id \in Seats)]]
  /\ votes = [p \in PlayerIds |-> NoVote]
  /\ resonance_shares = {}
  /\ timeLeft = 1
  /\ exchange_actions = <<>>
  /\ seen = [c \in Seats |-> Snapshot(room, exchange_actions)]
  /\ result = NoReply
  /\ clients = [c \in PlayerIds |->
                  IF c = Straggler
                  THEN [NewClient EXCEPT !.view = "playing", !.pc = "decide_hands",
                                         !.deck = CARD_LIST, !.chosen = purposeCards[1]]
                  ELSE [NewClient EXCEPT !.view = "playing"]]
  /\ txns = [t \in 1..MaxCalls |-> NoTxn]
  /\ ops = 0
  /\ discards = 0
  /\ fired = [NoFired EXCEPT !.checkin = 1, !.voting_result = 1, !.resonance_initial = 1]

NextDup ==
  \/ CallDraw
  \/ CallDiscard
  \/ CallExchange
  \/ \E c \in PlayerIds : handleAutoDecision_hands(c)
  \/ \E c \in PlayerIds : handleAutoDecision_update(c)

SpecDup == InitDup /\ [][NextDup]_vars

\* C6: an exchange call is rejected, and hands, discard pile, deck, turn
\* counters and status stay as they were, whenever (a) the hand card is not
\* in the caller's hand, (b) the board card is not in the discard pile,
\* (c) the hand card is already in the discard pile, or (d) another active
\* player holds the board card.
C6_Rejected ==
  [][(ops' # ops /\ result'.op = "exchange" /\ result'.args[2] \in Seats) =>
       LET p == result'.args[2]
           h == result'.args[3]
           b == result'.args[4]
       IN (\/ h \notin Range(players[p].hand)
           \/ b \notin Range(room.discard_pile)
           \/ h \in Range(room.discard_pile)
           \/ \E q \in Seats \ {p} : b \in Range(players[q].hand))
          => ~result'.success /\ room' = room /\ players' = players]_vars

\* an exchange was turned down because another seat holds the board card
C6_Witness ==
  /\ result.op = "exchange" /\ ~result.success
  /\ result.message = "board_card_in_other_hand"
  /\ \E q \in Seats \ {result.args[2]} : result.args[4] \in Range(players[q].hand)

\* ------------------------------------------------------------------ SpecGame
\* The game as the screens drive it, from the start of play: the seat whose
\* turn it is draws, then discards; the exchange round; four rounds of the
\* final phase, whose procedures any participant may call.
InitGame ==
  /\ room = [DealtRoom EXCEPT !.card_options = purposeCards]
  /\ players = [id \in PlayerIds |-> [DealtPlayers[id] EXCEPT !.has_checked_in = (id \in Seats)]]
  /\ votes = [p \in PlayerIds |-> NoVote]
  /\ resonance_shares = {}
  /\ timeLeft = 1
  /\ exchange_actions = <<>>
  /\ seen = [c \in Seats |-> Snapshot(room, exchange_actions)]
  /\ result = NoReply
  /\ clients = [c \in PlayerIds |-> [NewClient EXCEPT !.view = "playing"]]
  /\ txns = [t \in 1..MaxCalls |-> NoTxn]
  /\ ops = 0
  /\ discards = 0
  /\ fired = [NoFired EXCEPT !.checkin = 1, !.voting_result = 1, !.resonance_initial = 1]

Picks(s) == {i \in 1..MaxPick : i <= Len(s)}

Uncounted == UNCHANGED <<votes, timeLeft, resonance_shares, exchange_actions, txns, ops, fired>>

\* GameBoard. The screen is shown while the room row it last received says
\* playing, and isMyTurn comes from that row; pc "drawn" is hasDrawn.
drawCard(p) ==
  /\ seen[p].room.status = "playing"
  /\ players[p].player_number = seen[p].room.current_turn_player
  /\ clients[p].pc = "idle"
  /\ LET o == atomic_draw_card(room, players, TheRoom, p)
     IN /\ Commit(o, <<TheRoom, p>>)
        /\ clients' = [clients EXCEPT ![p].pc = IF o.reply.success THEN "drawn" ELSE @]
  /\ Uncounted

discardCard(p) ==
  \E cardIndex \in Picks(players[p].hand) :
     /\ seen[p].room.status = "playing"
     /\ players[p].player_number = seen[p].room.current_turn_player
     /\ clients[p].pc = "drawn"
     /\ LET o == atomic_discard_card(room, players, TheRoom, p, players[p].hand[cardIndex])
        IN /\ Commit(o, <<TheRoom, p, players[p].hand[cardIndex]>>)
           /\ clients' = [clients EXCEPT ![p].pc = IF o.reply.success THEN "idle" ELSE @]
     /\ Uncounted

\* CardExchange. The screen works from the room row and the exchange log it
\* last received (the hand comes from the players subscription, here always
\* delivered); a running handler keeps the turn number it started with.
isMyTurn(p) == players[p].player_number = seen[p].room.current_exchange_turn

hasActedThisTurn(p) ==
  \E i \in DOMAIN seen[p].exchangeActions :
     /\ seen[p].exchangeActions[i].player_id = p
     /\ seen[p].exchangeActions[i].turn_number = seen[p].room.current_exchange_turn

CanAct(p) ==
  /\ seen[p].room.status = "exchange"
  /\ isMyTurn(p) /\ ~hasActedThisTurn(p)
  /\ clients[p].pc = "idle"
  /\ Len(exchange_actions) < MaxLog

ExchangeAction(p, type, turn) == [player_id |-> p, action_type |-> type, turn_number |-> turn]

executeExchange(p) ==
  \E selectedHandCard \in Picks(players[p].hand),
     selectedDiscardCard \in Picks(seen[p].room.discard_pile) :
     /\ CanAct(p)
     /\ LET o == atomic_exchange_card(room, players, TheRoom, p,
                                       players[p].hand[selectedHandCard],
                                       seen[p].room.discard_pile[selectedDiscardCard])
        IN /\ Commit(o, <<TheRoom, p, players[p].hand[selectedHandCard],
                          seen[p].room.discard_pile[selectedDiscardCard]>>)
           /\ clients' = IF o.reply.success
                         THEN [clients EXCEPT ![p].pc = "log",
                                              ![p].turn = seen[p].room.current_exchange_turn]
                         ELSE clients
     /\ Uncounted

executeExchange_log(p) ==
  /\ clients[p].pc = "log"
  /\ exchange_actions' = Append(exchange_actions, ExchangeAction(p, "exchange", clients[p].turn))
  /\ clients' = [clients EXCEPT ![p].pc = "advance"]
  /\ UNCHANGED <<room, players, votes, timeLeft, resonance_shares, result, txns, ops, discards, fired>>

skipExchange(p) ==
  /\ CanAct(p)
  /\ exchange_actions' = Append(exchange_actions,
                                ExchangeAction(p, "skip", seen[p].room.current_exchange_turn))
  /\ clients' = [clients EXCEPT ![p].pc = "advance",
                                ![p].turn = seen[p].room.current_exchange_turn]
  /\ UNCHANGED <<room, players, votes, timeLeft, resonance_shares, result, txns, ops, discards, fired>>

advanceToNextTurn(p) ==
  /\ clients[p].pc = "advance"
  /\ LET nextTurnNumber == clients[p].turn + 1
     IN IF nextTurnNumber >= Cardinality(ActiveHands(players))
        THEN /\ clients' = [clients EXCEPT ![p].pc = "transition", ![p].turn = 0]
             /\ UNCHANGED room
        ELSE /\ room' = [room EXCEPT !.current_exchange_turn = nextTurnNumber]
             /\ clients' = [clients EXCEPT ![p].pc = "idle", ![p].turn = 0]
  /\ UNCHANGED <<players, votes, timeLeft, resonance_shares, exchange_actions, result, txns, ops, discards, fired>>

\* five seconds after the transition screen appeared, the screen still mounted
exchangeTransitionTimer(p) ==
  /\ clients[p].pc = "transition"
  /\ seen[p].room.status = "exchange"
  /\ room' = [room EXCEPT !.status = "playing",
                          !.current_exchange_turn = 0,
                          !.exchange_completed = TRUE]
  /\ clients' = [clients EXCEPT ![p].pc = "idle"]
  /\ UNCHANGED <<players, votes, timeLeft, resonance_shares, exchange_actions, result, txns, ops, discards, fired>>

\* FinalPhase
handleShareResonance ==
  \E p \in PlayerIds :
     /\ room.status = "resonance_final"
     /\ Commit(share_final_resonance(room, players, TheRoom, p), <<TheRoom, p>>)
     /\ UNCHANGED clients
     /\ Uncounted

handleGiveGift ==
  \E from \in PlayerIds, to \in Seats, m \in Messages :
     /\ room.status = "resonance_final"
     /\ Commit(give_final_message_gift(room, players, TheRoom, from, to, m),
               <<TheRoom, from, to, m>>)
     /\ UNCHANGED clients
     /\ Uncounted

handleEndTurn ==
  \E p \in PlayerIds :
     /\ room.status = "resonance_final"
     /\ Commit(share_final_reflection(room, players, TheRoom, p), <<TheRoom, p>>)
     /\ UNCHANGED clients
     /\ Uncounted

\* every screen has received every row
Fresh == seen' = [c \in Seats |-> Snapshot(room', exchange_actions')]

NextGame ==
  \/ \E p \in Seats : drawCard(p) /\ Fresh
  \/ \E p \in Seats : discardCard(p) /\ Fresh
  \/ \E p \in Seats : executeExchange(p) /\ Fresh
  \/ \E p \in Seats : executeExchange_log(p) /\ Fresh
  \/ \E p \in Seats : skipExchange(p) /\ Fresh
  \/ \E p \in Seats : advanceToNextTurn(p) /\ Fresh
  \/ \E p \in Seats : exchangeTransitionTimer(p) /\ Fresh
  \/ handleShareResonance /\ Fresh
  \/ handleGiveGift /\ Fresh
  \/ handleEndTurn /\ Fresh

SpecGame == InitGame /\ [][NextGame]_vars

ChainSteps ==
  {<<"waiting", "checkin">>, <<"checkin", "voting">>, <<"voting", "voting_result">>,
   <<"voting_result", "resonance_initial">>, <<"resonance_initial", "playing">>,
   <<"playing", "exchange">>, <<"exchange", "playing">>, <<"playing", "resonance_final">>,
   <<"resonance_final", "gift_exchange">>, <<"gift_exchange", "completed">>,
   <<"gift_exchange", "complete">>}

\* C8: the status only ever changes from a state of the chain waiting,
\* checkin, voting, voting_result, resonance_initial, playing, exchange,
\* playing, resonance_final, gift_exchange, terminal to its immediate
\* successor; no state is skipped.
C8_ChainOrder ==
  [][room'.status # room.status => <<room.status, room'.status>> \in ChainSteps]_vars

\* C9: a successful discard passes the turn to the next seat modulo 4 and
\* raises the round by exactly 1 when the turn returns to seat 0, by 0
\* otherwise; the round never decreases.
C9_TurnAndRound ==
  [][/\ discards' = discards + 1 =>
          /\ room'.current_turn_player = (room.current_turn_player + 1) % NumSeats
          /\ room'.round_number =
                room.round_number + (IF room'.current_turn_player = 0 THEN 1 ELSE 0)
     /\ room'.round_number >= room.round_number]_vars

\* the turn has come round to seat 0 again and a round has been counted
C9_Witness ==
  /\ discards = NumSeats + 1
  /\ room.round_number = 1
  /\ room.current_turn_player = 1
  /\ result.op = "discard" /\ result.success

StepOrder == {<<"sharing", "gifting">>, <<"gifting", "reflection">>, <<"reflection", "sharing">>}

\* C10: in the final phase the steps go sharing, gifting, reflection for
\* seats 0, 1, 2, 3 in turn: sharing the resonance succeeds only for the turn
\* player in step sharing and moves the step to gifting; the reflection
\* succeeds only for the turn player in step reflection; the final turn
\* changes only on a successful reflection, by exactly +1, with the step
\* reset to sharing and every active player's gift flag cleared.
C10_FinalSteps ==
  [][/\ (result' # result /\ result'.op = "resonance" /\ result'.success) =>
          /\ players[result'.args[2]].player_number = room.final_phase_turn
          /\ room.final_phase_step = "sharing"
          /\ room'.final_phase_step = "gifting"
     /\ (result' # result /\ result'.op = "reflection" /\ result'.success) =>
          /\ players[result'.args[2]].player_number = room.final_phase_turn
          /\ room.final_phase_step = "reflection"
     /\ room'.final_phase_turn # room.final_phase_turn =>
          /\ result' # result /\ result'.op = "reflection" /\ result'.success
          /\ room'.final_phase_turn = room.final_phase_turn + 1
          /\ room'.final_phase_step = "sharing"
          /\ \A q \in ActiveHands(players') : ~players'[q].has_given_final_gift
     /\ room'.final_phase_step # room.final_phase_step =>
          <<room.final_phase_step, room'.final_phase_step>> \in StepOrder]_vars

\* ------------------------------------------------------------------ gifts
Senders(gifts) == {g.from_player_id : g \in BagToSet(gifts)}

\* C11: the step moves from gifting to reflection exactly when the third
\* active player other than the turn player has given a gift; at that moment
\* the turn player holds exactly 3 gifts, one from each of the other three
\* active players, none from a spectator, from the turn player or twice from
\* one sender; while the step stays gifting fewer than 3 of them have given.
C11_ThirdGift ==
  [][/\ (room.final_phase_step = "gifting" /\ room'.final_phase_step = "reflection") =>
          LET t == room.final_phase_turn
              g == players'[t].final_gifts_received
          IN /\ result' # result /\ result'.op = "gift" /\ result'.success
             /\ result'.args[2] \in Seats \ {t}
             /\ BagCardinality(g) = GiftsPerTurn
             /\ Senders(g) = Seats \ {t}
     /\ (room'.status = "resonance_final" /\ room'.final_phase_step = "gifting") =>
          Cardinality(Senders(players'[room'.final_phase_turn].final_gifts_received)
                        \cap Seats) < GiftsPerTurn]_vars

\* C12: the reflection of the player in seat 3 makes the status terminal and
\* leaves the final turn as it was.
C12_LastReflection ==
  [][(/\ result' # result /\ result'.op = "reflection" /\ result'.success
      /\ room.final_phase_turn = NumSeats - 1) =>
        /\ room'.status \in {"complete", "completed"}
        /\ room'.final_phase_turn = room.final_phase_turn]_vars

\* C13: a gift is refused, with the recipient's gifts, the sender's flag and
\* the step unchanged, whenever the step is not gifting, the recipient is not
\* the turn player, the sender is the recipient, the sender has already
\* given, or the message is empty or blank.
C13_GiftRefused ==
  [][(ops' # ops /\ result'.op = "gift") =>
       LET from == result'.args[2]
           to == result'.args[3]
           m == result'.args[4]
       IN (\/ room.final_phase_step # "gifting"
           \/ to \notin DOMAIN players
           \/ to \in DOMAIN players /\ players[to].player_number # room.final_phase_turn
           \/ from = to
           \/ from \in DOMAIN players /\ players[from].has_given_final_gift
           \/ m = "blank")
          => /\ ~result'.success
             /\ room' = room
             /\ players' = players]_vars

\* a second gift from the same sender in the same turn has been refused
C13_Witness ==
  /\ result.op = "gift" /\ ~result.success /\ result.message = "already_given"
  /\ players[result.args[2]].has_given_final_gift
  /\ room.final_phase_step = "gifting"

\* ------------------------------------------------------------------ SpecExchange
\* The exchange round on screens that may lag behind the rows.
RECURSIVE PlayTurns(_, _, _)
PlayTurns(rm, ps, n) ==
  IF n = 0 THEN [room |-> rm, players |-> ps]
  ELSE LET p == rm.current_turn_player
           d == atomic_draw_card(rm, ps, TheRoom, p)
           o == atomic_discard_card(d.room, d.players, TheRoom, p, d.players[p].hand[1])
       IN PlayTurns(o.room, o.players, n - 1)

ExchangeStart ==
  PlayTurns([DealtRoom EXCEPT !.card_options = purposeCards],
            [id \in PlayerIds |-> [DealtPlayers[id] EXCEPT !.has_checked_in = (id \in Seats)]],
            ExchangeRound * NumSeats)

InitExchange ==
  /\ room = ExchangeStart.room
  /\ players = ExchangeStart.players
  /\ votes = [p \in PlayerIds |-> NoVote]
  /\ resonance_shares = {}
  /\ timeLeft = 1
  /\ exchange_actions = <<>>
  /\ seen = [c \in Seats |-> Snapshot(room, exchange_actions)]
  /\ result = NoReply
  /\ clients = [c \in PlayerIds |-> [NewClient EXCEPT !.view = "exchange"]]
  /\ txns = [t \in 1..MaxCalls |-> NoTxn]
  /\ ops = 0
  /\ discards = ExchangeRound * NumSeats
  /\ fired = [NoFired EXCEPT !.checkin = 1, !.voting_result = 1, !.resonance_initial = 1]

\* the subscription brings every screen up to date, except that the events
\* for the first MaxStale seats may be late
Stale ==
  \E L \in SUBSET {c \in Seats : c < MaxStale} :
     seen' = [c \in Seats |-> IF c \in L THEN seen[c]
                              ELSE Snapshot(room', exchange_actions')]

\* a late event reaches a screen
Deliver(c) ==
  /\ seen[c] # Snapshot(room, exchange_actions)
  /\ seen' = [seen EXCEPT ![c] = Snapshot(room, exchange_actions)]
  /\ UNCHANGED <<room, players, votes, timeLeft, result, clients, txns, ops, discards, fired,
                 resonance_shares, exchange_actions>>

NextExchange ==
  \/ \E p \in Seats : executeExchange(p) /\ Stale
  \/ \E p \in Seats : executeExchange_log(p) /\ Stale
  \/ \E p \in Seats : skipExchange(p) /\ Stale
  \/ \E p \in Seats : advanceToNextTurn(p) /\ Stale
  \/ \E p \in Seats : exchangeTransitionTimer(p) /\ Stale
  \/ \E c \in Seats : Deliver(c)

SpecExchange == InitExchange /\ [][NextExchange]_vars

\* ------------------------------------------------------------------ SpecLate
\* The same round with the last write of a handleNextPhase, which passed its
\* check during the initial sharing, still in flight.
InitLate ==
  /\ room = ExchangeStart.room
  /\ players = ExchangeStart.players
  /\ votes = [p \in PlayerIds |-> NoVote]
  /\ resonance_shares = {}
  /\ timeLeft = 1
  /\ exchange_actions = <<>>
  /\ seen = [c \in Seats |-> Snapshot(room, exchange_actions)]
  /\ result = NoReply
  /\ clients = [c \in PlayerIds |->
                  IF c = Straggler
                  THEN [NewClient EXCEPT !.view = "exchange", !.pc = "next_write"]
                  ELSE [NewClient EXCEPT !.view = "exchange"]]
  /\ txns = [t \in 1..MaxCalls |-> NoTxn]
  /\ ops = 0
  /\ discards = ExchangeRound * NumSeats
  /\ fired = [NoFired EXCEPT !.checkin = 1, !.voting_result = 1, !.resonance_initial = 1]

\* the exchange screen is taken down while its transition timer is pending
unmountExchange(p) ==
  /\ clients[p].pc = "transition"
  /\ seen[p].room.status # "exchange"
  /\ clients' = [clients EXCEPT ![p].pc = "idle"]
  /\ ClientOnly

NextLate ==
  \/ \E p \in Seats : executeExchange(p) /\ Stale
  \/ \E p \in Seats : executeExchange_log(p) /\ Stale
  \/ \E p \in Seats : skipExchange(p) /\ Stale
  \/ \E p \in Seats : advanceToNextTurn(p) /\ Stale
  \/ \E p \in Seats : exchangeTransitionTimer(p) /\ Stale
  \/ \E c \in Seats : Deliver(c)
  \/ \E p \in Seats : unmountExchange(p)
  \/ \E c \in PlayerIds : handleNextPhase_update(c) /\ Stale

SpecLate == InitLate /\ [][NextLate]_vars

ActionsOf(p) == {i \in DOMAIN exchange_actions : exchange_actions[i].player_id = p}

\* C14: during the exchange the exchange turn goes 0, 1, 2, 3 and never
\* decreases; each seat acts exactly once (one logged exchange or skip) and
\* only while the exchange turn is its seat, also when its screen has not
\* yet caught up with its own action; the turn advances by one after an
\* exchange and after a skip alike.
C14_ExchangeTurns ==
  [][/\ (room.status = "exchange" /\ room'.status = "exchange") =>
          room'.current_exchange_turn \in
             {room.current_exchange_turn, room.current_exchange_turn + 1}
     /\ \A p \in Seats : Cardinality({i \in DOMAIN exchange_actions' :
                                        exchange_actions'[i].player_id = p}) <= 1
     /\ exchange_actions' # exchange_actions =>
          /\ room.status = "exchange"
          /\ players[exchange_actions'[Len(exchange_actions')].player_id].player_number
               = room.current_exchange_turn]_vars

\* C15: the status leaves exchange only after all four seats have acted, by
\* a write that sets status playing, exchange turn 0 and exchange_completed
\* together; exchange_completed never returns to false and the exchange
\* status is not entered again.
C15_LeavesOnce ==
  [][/\ (room.status = "exchange" /\ room'.status # "exchange") =>
          /\ \A p \in Seats : ActionsOf(p) # {}
          /\ room'.status = "playing"
          /\ room'.current_exchange_turn = 0
          /\ room'.exchange_completed
     /\ room.exchange_completed => room'.exchange_completed
     /\ (room.status # "exchange" /\ room'.status = "exchange") => ~room.exchange_completed]_vars

\* ------------------------------------------------------------------ SpecVoting
\* The vote, from any set of votes already cast, to its resolution.
TallyIndexes == 0..MaxTally

InitVoting ==
  /\ room = [NewRoom(CARD_LIST) EXCEPT !.status = "voting", !.card_options = purposeCards]
  /\ players = [id \in PlayerIds |-> [NewPlayer(id) EXCEPT !.has_checked_in = (id \in Seats)]]
  /\ votes \in [PlayerIds -> TallyIndexes \cup {NoVote}]
  /\ votes[Spectator] = NoVote
  /\ timeLeft = 1
  /\ resonance_shares = {}
  /\ exchange_actions = <<>>
  /\ seen = [c \in Seats |-> Snapshot(room, exchange_actions)]
  /\ result = NoReply
  /\ clients = [c \in PlayerIds |-> [NewClient EXCEPT !.view = "voting"]]
  /\ txns = [t \in 1..MaxCalls |-> NoTxn]
  /\ ops = 0
  /\ discards = 0
  /\ fired = [NoFired EXCEPT !.checkin = 1]

NextVoting ==
  \/ \E c \in PlayerIds : Sync(c)
  \/ \E c \in PlayerIds : submitVote(c)
  \/ updateTime
  \/ \E c \in PlayerIds : handleAutoDecision(c)
  \/ \E c \in PlayerIds : handleAutoDecision_status(c)
  \/ \E c \in PlayerIds : handleAutoDecision_deck(c)
  \/ \E c \in PlayerIds : handleAutoDecision_hands(c)
  \/ \E c \in PlayerIds : handleAutoDecision_update(c)

SpecVoting == InitVoting /\ [][NextVoting]_vars

SpecVotingFair ==
  /\ SpecVoting
  /\ WF_vars(\E c \in PlayerIds : handleAutoDecision(c))

\* C17: the room leaves voting only when every active player has voted or the
\* countdown has expired, and once every active player has voted a resolution
\* is attempted whether or not the countdown ever expires.
EveryActiveVoted == \A p \in PlayerIds : players[p].role # "spectator" => votes[p] # NoVote

C18_Resolved ==
  [][/\ (room.status = "voting" /\ room'.status # "voting") =>
          /\ room'.purpose_card = room.card_options[WinningIndex(votes') + 1]
          /\ \A p \in Seats :
               players'[p].hand = SubSeq(room.deck, HandSize * p + 1, HandSize * p + HandSize)
          /\ room'.deck = SubSeq(room.deck, HandSize * NumSeats + 1, Len(room.deck))
          /\ Len(room'.deck) = 24
          /\ room'.discard_pile = <<>>
     /\ room.status # "voting" => room'.purpose_card = room.purpose_card]_vars

\* ------------------------------------------------------------------ SpecStart
\* From the full room to check-in, with responses that can be lost.
NextStart ==
  \/ \E c \in PlayerIds : Sync(c)
  \/ \E c \in PlayerIds : handleGameStart(c)
  \/ \E c \in PlayerIds : executeGameInitialization_read(c)
  \/ \E c \in PlayerIds : executeGameInitialization_update(c)
  \/ \E c \in PlayerIds : executeGameInitialization_lost(c)
  \/ \E c \in PlayerIds : executeGameInitialization_error(c)
  \/ \E c \in PlayerIds : executeGameInitialization_catch(c)
  \/ \E c \in PlayerIds : lateUpdate(c)
  \/ \E c \in PlayerIds : handleCheckIn(c)

SpecStart == InitClients /\ [][NextStart]_vars

\* C19: the status leaves waiting only by the conditional update of the
\* seat-0 client; the clients of seats 1 to 3 and of spectators never stand in
\* the start handler and never change the room; and an update of the leader
\* that meets a room no longer waiting changes nothing and returns with no
\* row reported and without arming its screen for another attempt.
C19_LeaderStarts ==
  [][/\ room.status = "waiting" /\ room'.status # "waiting" =>
          /\ room'.status = "checkin"
          /\ \E c \in PlayerIds :
               /\ players[c].player_number = 0
               /\ \/ clients[c].pc = "init_cas" /\ clients'[c].pc = "idle"
                  \/ clients[c].orphan /\ ~clients'[c].orphan
     /\ \A c \in PlayerIds :
          players[c].player_number # 0 =>
             /\ clients'[c].pc = "idle" /\ ~clients'[c].orphan
             /\ clients'[c].updatedRoom = NoRows
     /\ \A c \in PlayerIds :
          (clients[c].pc = "init_cas" /\ clients'[c].pc = "idle" /\ room.status # "waiting") =>
             /\ room' = room
             /\ clients'[c].attempted = clients[c].attempted
             /\ clients'[c].updatedRoom = 0]_vars

\* the leader's update affected no row, the room having been started by its
\* earlier update, and there was exactly one effective write
C19_Witness ==
  /\ room.status = "checkin"
  /\ fired.checkin = 1
  /\ \E c \in PlayerIds :
       /\ players[c].player_number = 0
       /\ clients[c].updatedRoom = 0 /\ clients[c].pc = "idle" /\ ~clients[c].orphan

\* ------------------------------------------------------------------ SpecResonance
\* The first resonance sharing: the players submit, press the button when
\* their screen shows it, and the room moves on to play.  A share is kept as
\* the id of the player who submitted it.
activePlayers(ps) == {q \in DOMAIN ps : ps[q].role = "player" /\ Len(ps[q].hand) > 0}

submittedActivePlayers(shares, ps) == shares \cap activePlayers(ps)

allSubmitted(shares, ps) ==
  Cardinality(submittedActivePlayers(shares, ps)) >= Cardinality(activePlayers(ps))

Max(a, b) == IF a >= b THEN a ELSE b

\* Math.ceil(n * 0.75)
CeilThreeQuarters(n) == (3 * n + 3) \div 4

majoritySubmitted(shares, ps) ==
  Cardinality(submittedActivePlayers(shares, ps))
    >= Max(1, CeilThreeQuarters(Cardinality(activePlayers(ps))))

canProceed(shares, ps, c) ==
  allSubmitted(shares, ps) \/ (isLeader(ps, c) /\ majoritySubmitted(shares, ps))

submitResonance(c) ==
  /\ clients[c].view = "resonance_initial"
  /\ c \notin resonance_shares
  /\ resonance_shares' = resonance_shares \cup {c}
  /\ UNCHANGED <<room, players, votes, timeLeft, exchange_actions, seen, clients, fired>>
  /\ NoRpc

\* the button is on the screen of a player who has submitted
NextPhaseButton(c) ==
  /\ c \in resonance_shares
  /\ canProceed(resonance_shares, players, c) \/ isLeader(players, c)
  /\ ~players[c].ready_for_next_phase

pressNextPhase(c) == NextPhaseButton(c) /\ handleNextPhase(c)

NextResonance ==
  \/ \E c \in PlayerIds : Sync(c)
  \/ \E c \in PlayerIds : submitResonance(c)
  \/ \E c \in PlayerIds : pressNextPhase(c)
  \/ \E c \in PlayerIds : handleNextPhase_read(c)
  \/ \E c \in PlayerIds : handleNextPhase_reset(c)
  \/ \E c \in PlayerIds : handleNextPhase_update(c) /\ UNCHANGED seen

SpecResonance == InitReady /\ [][NextResonance]_vars

\* C20: in resonance_initial, when the seat-0 player presses the button with
\* at least 75% of the active players' shares in, the press goes on to the
\* transition to playing: it does not end waiting for the other players.
C20_LeaderForces ==
  [][\A c \in PlayerIds :
       (/\ isLeader(players, c)
        /\ room.status = "resonance_initial"
        /\ majoritySubmitted(resonance_shares, players)
        /\ clients[c].pc = "next_read")
         => clients'[c].pc # "idle"]_vars

\* C21: the room goes from resonance_initial to playing only after every
\* active player has marked itself ready, and whenever the status is playing
\* every player's ready_for_next_phase is false.
C21_ReadyThenPlaying ==
  [][/\ (room.status = "resonance_initial" /\ room'.status = "playing") =>
          \A p \in activePlayers(players) : clients[p].attempted
     /\ room'.status = "playing" =>
          \A q \in PlayerIds : ~players'[q].ready_for_next_phase]_vars

InitTimer == InitVoting /\ \A p \in PlayerIds : votes[p] = NoVote

NextTimer ==
  \/ \E c \in PlayerIds : initializeTimer(c)
  \/ \E c \in PlayerIds : initializeTimer_update(c)
  \/ updateTime
  \/ \E c \in PlayerIds : handleAutoDecision(c)
  \/ \E c \in PlayerIds : handleAutoDecision_status(c)
  \/ \E c \in PlayerIds : handleAutoDecision_deck(c)
  \/ \E c \in PlayerIds : handleAutoDecision_hands(c)
  \/ \E c \in PlayerIds : handleAutoDecision_update(c)

SpecTimer == InitTimer /\ [][NextTimer]_vars

\* C23: a stored voting_started_at is never changed, and of the clients that
\* saw it unset and race to store it the first to reach a voting room stores
\* its value and every other one stores nothing.
C23_AnchoredOnce ==
  [][/\ room.voting_started_at # NoTime => room'.voting_started_at = room.voting_started_at
     /\ \A c \in PlayerIds :
          (clients[c].timer = "sent" /\ clients'[c].timer # "sent" /\ room.status = "voting") =>
             /\ room'.voting_started_at # NoTime
             /\ clients'[c].timer = "stored" <=> room.voting_started_at = NoTime
     /\ Cardinality({c \in PlayerIds : clients'[c].timer = "stored"}) <= 1]_vars

\* three clients raced: one stored its value, the others stored nothing
C23_Witness ==
  \E c, d, e \in PlayerIds :
     /\ c # d /\ d # e /\ c # e
     /\ clients[c].timer = "stored" /\ room.voting_started_at = Now(c)
     /\ clients[d].timer = "local" /\ clients[e].timer = "local"
     /\ room.status = "voting"

\* ------------------------------------------------------------------ SpecDrawn
\* Draws and discards on a room whose deck has been drawn down to its last
\* cards, the seats having drawn in turn.
RECURSIVE DrawTurns(_, _, _)
DrawTurns(rm, ps, n) ==
  IF n = 0 THEN [room |-> rm, players |-> ps]
  ELSE LET o == atomic_draw_card(rm, ps, TheRoom, n % NumSeats)
       IN DrawTurns(o.room, o.players, n - 1)

InitDrawn ==
  /\ \E left \in 0..MaxLeft :
        LET d == DrawTurns(DealtRoom, DealtPlayers, Len(DealtRoom.deck) - left)
        IN room = d.room /\ players = d.players
  /\ Idle

NextDrawn ==
  \/ CallDraw
  \/ CallDiscard

SpecDrawn == InitDrawn /\ [][NextDrawn]_vars

\* C24: a draw on a deck that has a card takes the front card of the deck,
\* puts it at the end of the caller's hand and returns it, and changes nothing
\* else; a draw on an empty deck fails and changes nothing.
C24_DrawFront ==
  [][(ops' # ops /\ result'.op = "draw") =>
       LET p == result'.args[2]
       IN /\ result'.success =>
               /\ Len(room.deck) > 0 /\ p \in DOMAIN players
               /\ result'.card = Head(room.deck)
               /\ room' = [room EXCEPT !.deck = Tail(room.deck)]
               /\ players' = [players EXCEPT ![p].hand = Append(players[p].hand, Head(room.deck))]
          /\ (result'.args[1] = TheRoom /\ p \in DOMAIN players /\ Len(room.deck) > 0)
                => result'.success
          /\ Len(room.deck) = 0 =>
               ~result'.success /\ room' = room /\ players' = players]_vars

\* the last card has been drawn and a further draw has failed on the empty deck
C24_Witness ==
  /\ result.op = "draw" /\ ~result.success /\ result.message = "deck_empty"
  /\ Len(room.deck) = 0
  /\ \E p \in Seats : players[p].hand[Len(players[p].hand)] = CARD_LIST[EXPECTED_DECK_SIZE]

\* C25: a successful discard takes the first occurrence of the named card
\* out of the caller's hand, keeps the other cards in their order and puts
\* the card at the end of the discard pile; a discard of a card that is not
\* in the hand fails and changes nothing, the turn and the round included.
C25_DiscardFirst ==
  [][(ops' # ops /\ result'.op = "discard") =>
       LET p == result'.args[2]
           c == result'.args[3]
       IN /\ result'.success =>
               /\ p \in DOMAIN players
               /\ \E i \in 1..Len(players[p].hand) :
                     /\ players[p].hand[i] = c
                     /\ \A j \in 1..(i - 1) : players[p].hand[j] # c
                     /\ players'[p].hand = SubSeq(players[p].hand, 1, i - 1)
                                             \o SubSeq(players[p].hand, i + 1, Len(players[p].hand))
               /\ \A q \in DOMAIN players \ {p} : players'[q] = players[q]
               /\ room'.discard_pile = Append(room.discard_pile, c)
               /\ room'.deck = room.deck
          /\ (result'.args[1] = TheRoom /\ p \in DOMAIN players /\ c \in Range(players[p].hand))
                => result'.success
          /\ (p \in DOMAIN players /\ c \notin Range(players[p].hand)) =>
               /\ ~result'.success
               /\ room' = room /\ players' = players]_vars

\* a discard has taken the first of two copies of a card out of a hand, the
\* second copy staying where it was
C25_Witness ==
  /\ result.op = "discard" /\ result.success
  /\ Contains(players[result.args[2]].hand, result.args[3])
  /\ Len(players[result.args[2]].hand) = HandSize - 1
  /\ room.discard_pile[Len(room.discard_pile)] = result.args[3]

\* C26: a successful exchange swaps in place: the board card stands where
\* the hand card stood in the caller's hand, the hand card stands where the
\* board card stood in the discard pile, and nothing else changes.
C26_SwapInPlace ==
  [][(ops' # ops /\ result'.op = "exchange" /\ result'.success) =>
       LET p == result'.args[2]
           h == result'.args[3]
           b == result'.args[4]
       IN /\ p \in DOMAIN players
          /\ \E i \in 1..Len(players[p].hand), j \in 1..Len(room.discard_pile) :
                /\ players[p].hand[i] = h
                /\ room.discard_pile[j] = b
                /\ players' = [players EXCEPT ![p].hand = [players[p].hand EXCEPT ![i] = b]]
                /\ room' = [room EXCEPT !.discard_pile = [room.discard_pile EXCEPT ![j] = h]]]_vars

\* an exchange has put a hand card in the first of two places of the discard
\* pile and the board card in a place of the hand that is not the last
C26_Witness ==
  /\ result.op = "exchange" /\ result.success
  /\ Len(room.discard_pile) = 2
  /\ room.discard_pile[1] = result.args[3]
  /\ \E i \in 1..(Len(players[result.args[2]].hand) - 1) :
        players[result.args[2]].hand[i] = result.args[4]

\* ------------------------------------------------------------------ SpecShuffle
\* Room creation: the deck is shuffled and stored with the new room.
\* a variant of the catalog with a name that is not a card
foreign_card_list == [CARD_LIST EXCEPT ![1] = NoCard]

\* [...new Set(CARD_LIST)], which createRoom needs to be of the expected size
getUniqueCardList ==
  SelectSeq([i \in 1..Len(CARD_LIST) |->
               IF \E j \in 1..(i - 1) : CARD_LIST[j] = CARD_LIST[i] THEN NoCard ELSE CARD_LIST[i]],
            LAMBDA c : c # NoCard)

Swap(s, a, b) == [s EXCEPT ![a] = s[b], ![b] = s[a]]

\* the loop of the shuffle from index i down to 1 (indexes from 0, as in the
\* code); rand[i] is Math.floor(Math.random() * (i + 1))
RECURSIVE FisherYates(_, _, _)
FisherYates(shuffled, i, rand) ==
  IF i <= 0 THEN shuffled
  ELSE FisherYates(Swap(shuffled, i + 1, rand[i] + 1), i - 1, rand)

\* the shuffled deck, or no deck when a check throws
shuffleDeck(rand) ==
  LET unique == getUniqueCardList
      shuffled == FisherYates(unique, Len(unique) - 1, rand)
  IN IF Len(unique) # EXPECTED_DECK_SIZE THEN [ok |-> FALSE, deck |-> <<>>]
     ELSE IF Cardinality(Range(shuffled)) # EXPECTED_DECK_SIZE THEN [ok |-> FALSE, deck |-> <<>>]
     ELSE [ok |-> TRUE, deck |-> shuffled]

\* the random indexes of one shuffle
Randoms ==
  LET last == EXPECTED_DECK_SIZE - 1
      free == (last - MaxShuffle + 1)..last
  IN {[i \in 1..last |-> IF i \in free THEN f[i] ELSE i] :
        f \in {g \in [free -> 0..last] : \A i \in free : g[i] <= i}}

\* no room has been created yet
Lobby == [NewRoom(<<>>) EXCEPT !.status = "lobby"]

InitShuffle ==
  /\ room = Lobby
  /\ players = [id \in PlayerIds |-> NewPlayer(id)]
  /\ Idle

createRoom ==
  \E rand \in Randoms :
     /\ room.status = "lobby"
     /\ shuffleDeck(rand).ok
     /\ room' = NewRoom(shuffleDeck(rand).deck)
     /\ UNCHANGED <<players, votes, timeLeft, resonance_shares, exchange_actions, seen, clients, fired>>
     /\ NoRpc

SpecShuffle == InitShuffle /\ [][createRoom]_vars

\* C29: every deck the shuffle returns has 36 cards, holds every name of the
\* catalog exactly once and holds no other name.
C29_Permutation ==
  [][(room.status = "lobby" /\ room'.status = "waiting") =>
       /\ Len(room'.deck) = 36
       /\ \A c \in 1..36 : Cardinality({i \in 1..Len(room'.deck) : room'.deck[i] = c}) = 1
       /\ \A i \in 1..Len(room'.deck) : room'.deck[i] \in 1..36]_vars

\* a deck whose last two cards both moved to the front half
C29_Witness ==
  /\ room.status = "waiting"
  /\ \E i, j \in 1..18 : i # j /\ room.deck[i] = 36 /\ room.deck[j] = 35

\* ---- SpecDeal: a voting room over every deck the shuffle can produce,
\* ---- nobody votes and the countdown has run out

\* the voting screen once the countdown has run out with no vote cast; the
\* clients in racers have tallied, read status and deck, and dealt
ExpiredVoting(deck, racers) ==
  /\ room = [NewRoom(deck) EXCEPT !.status = "voting", !.card_options = purposeCards]
  /\ players = [id \in PlayerIds |-> [NewPlayer(id) EXCEPT !.has_checked_in = (id \in Seats)]]
  /\ votes = [p \in PlayerIds |-> NoVote]
  /\ timeLeft = 0
  /\ resonance_shares = {}
  /\ exchange_actions = <<>>
  /\ seen = [c \in Seats |-> Snapshot(room, exchange_actions)]
  /\ result = NoReply
  /\ clients = [c \in PlayerIds |->
                  IF c \in racers
                  THEN [NewClient EXCEPT !.view = "voting", !.attempted = TRUE, !.pc = "decide_hands",
                                         !.deck = deck, !.chosen = purposeCards[1]]
                  ELSE [NewClient EXCEPT !.view = "voting"]]
  /\ txns = [t \in 1..MaxCalls |-> NoTxn]
  /\ ops = 0
  /\ discards = 0
  /\ fired = [NoFired EXCEPT !.checkin = 1]

InitDeal == \E rand \in Randoms : ExpiredVoting(shuffleDeck(rand).deck, {})

NextDeal ==
  \E c \in PlayerIds :
    \/ handleAutoDecision(c)
    \/ handleAutoDecision_status(c)
    \/ handleAutoDecision_deck(c)
    \/ handleAutoDecision_hands(c)
    \/ handleAutoDecision_update(c)

SpecDeal == InitDeal /\ [][NextDeal]_vars

IsFullDeck(d) == Len(d) = 36 /\ \A card \in 1..36 : \E i \in 1..36 : d[i] = card

\* C27: from a deck that is a permutation of the 36 names the deal succeeds;
\* seat i (counted from 0) is written the deck's positions 3i+1..3i+3, the
\* room keeps positions 13..36 in order with an empty discard pile, and hands
\* and remaining deck together hold every one of the 36 names exactly once
C27_Deal ==
  [][\A c \in PlayerIds :
       /\ (clients[c].pc = "decide_deck" /\ clients'[c].pc # "decide_deck" /\ IsFullDeck(room.deck))
            => clients'[c].pc = "decide_hands" /\ clients'[c].deck = room.deck
       /\ (clients[c].pc = "decide_hands" /\ clients'[c].pc = "decide_cas")
            => \A p \in Seats :
                 players'[p].hand = SubSeq(clients[c].deck, 3 * p + 1, 3 * p + 3)
       /\ (clients[c].pc = "decide_cas" /\ clients'[c].pc = "idle" /\ room' # room)
            => /\ room'.deck = SubSeq(clients[c].deck, 13, 36)
               /\ room'.discard_pile = <<>>
               /\ \A p \in Seats : \A k \in 1..3 : \A i \in 1..24 :
                     players'[p].hand[k] # room'.deck[i]
               /\ UNION {{players'[p].hand[k] : k \in 1..3} : p \in Seats}
                     \cup {room'.deck[i] : i \in 1..24} = 1..36
    ]_vars

\* a shuffled deck has been dealt and the room has taken the remainder
C27_Witness ==
  /\ room.status = "voting_result"
  /\ Len(room.deck) = 24
  /\ room.deck # SubSeq(CARD_LIST, 13, 36)
  /\ \A p \in Seats : Len(players[p].hand) = 3
  /\ fired.voting_result = 1

\* inputs the deal must refuse, derived from a deck d: every proper prefix,
\* d with one more entry, and d with one position overwritten by its neighbour
BadDecks(d) ==
  {SubSeq(d, 1, k) : k \in 0..(Len(d) - 1)}
    \cup {Append(d, d[1]), Append(d, NoCard)}
    \cup {[d EXCEPT ![i] = d[(i % Len(d)) + 1]] : i \in 1..Len(d)}

\* C28: the deal returns no hands for an input that is not 36 long or repeats
\* a name (tried on the room's deck whenever no resolution is under way), and a resolution that reads a deck which is not the full deck
\* returns with room and players as they were
C28_DealRefuses ==
  /\ [](InFlight = 0 => \A b \in BadDecks(room.deck) \cup {room.deck} :
          (Len(b) # 36 \/ \E i, j \in 1..Len(b) : i # j /\ b[i] = b[j])
            => ~dealInitialHands(b).ok /\ dealInitialHands(b).hands = <<>>)
  /\ [][\A c \in PlayerIds :
          (clients[c].pc = "decide_deck" /\ clients'[c].pc # "decide_deck" /\ ~IsFullDeck(room.deck))
            => /\ clients'[c].pc = "idle"
               /\ room' = room
               /\ players' = players]_vars

\* a second resolution read the 24-card remainder and gave up
C28_Witness ==
  /\ "deal" \in fired.missed
  /\ room.status = "voting_result"
  /\ Len(room.deck) = 24
  /\ fired.voting_result = 1

\* ---- SpecValidate: two resolutions of the vote that have both dealt from
\* ---- the catalog-ordered deck, discards and the uniqueness check

\* validate_card_uniqueness: count the names of the discard pile and of the
\* hands of the rows with role 'player'
validate_card_uniqueness(rm, ps, p_room_id) ==
  IF p_room_id # TheRoom
  THEN [op |-> "validate", valid |-> FALSE, message |-> "room_not_found", duplicates |-> {}, args |-> <<>>]
  ELSE LET v_players == {q \in DOMAIN ps : ps[q].role = "player"}
           v_card_counts == [card \in Cards |->
                               Count(rm.discard_pile, card)
                                 + SumOver([q \in v_players |-> Count(ps[q].hand, card)], v_players)]
           v_duplicates == {card \in Cards : v_card_counts[card] > 1}
       IN IF v_duplicates # {}
          THEN [op |-> "validate", valid |-> FALSE, message |-> "duplicates_found",
                duplicates |-> v_duplicates, args |-> <<>>]
          ELSE [op |-> "validate", valid |-> TRUE, message |-> "all_unique",
                duplicates |-> {}, args |-> <<>>]

CallValidate ==
  \E r \in RoomArgs :
     /\ Counted
     /\ result' = [validate_card_uniqueness(room, players, r) EXCEPT !.args = <<r>>]
     /\ UNCHANGED <<room, players, discards>>

InitValidate == ExpiredVoting(CARD_LIST, {0, Straggler})

NextValidate ==
  \/ \E c \in PlayerIds : handleAutoDecision_hands(c)
  \/ \E c \in PlayerIds : handleAutoDecision_update(c)
  \/ CallDiscard
  \/ CallValidate

SpecValidate == InitValidate /\ [][NextValidate]_vars

\* C30: the check answers invalid exactly when some name occurs more than
\* once in deck, discard pile and active players' hands together, and the
\* names it reports are exactly the names that occur more than once there
C30_ReportsDuplicates ==
  [][(ops' # ops /\ result'.op = "validate" /\ result'.args[1] = TheRoom) =>
       /\ result'.valid = (\A card \in Cards : Occurrences(room, players, card) <= 1)
       /\ result'.duplicates = {card \in Cards : Occurrences(room, players, card) > 1}
    ]_vars

\* ---- replenish_discard_pile

\* a variant that takes only the discard pile for the cards in use
used_pile_only(rm, ps) == Range(rm.discard_pile)

\* v_all_used_cards: the discard pile and the hands of the rows with role 'player'
UsedCards(rm, ps) ==
  Range(rm.discard_pile) \cup UNION {Range(ps[q].hand) : q \in {r \in DOMAIN ps : ps[r].role = "player"}}

\* v_available_cards: the deck entries that are not in use, in deck order
AvailableCards(rm, ps) == SelectSeq(rm.deck, LAMBDA card : card \notin UsedCards(rm, ps))

\* the orders array_agg(card ORDER BY random()) can give the entries of s
RandomOrders(s) ==
  {[k \in 1..Len(s) |-> s[f[k]]] :
     f \in {g \in [1..Len(s) -> 1..Len(s)] : \A a, b \in 1..Len(s) : a # b => g[a] # g[b]}}

\* the values v_cards_to_add can take
CardsToAdd(rm, ps, p_target_count) ==
  LET v_needed_count == p_target_count - Len(rm.discard_pile)
      v_available_cards == AvailableCards(rm, ps)
  IN IF v_needed_count <= 0 \/ Len(v_available_cards) < v_needed_count THEN {v_available_cards}
     ELSE RandomOrders(SubSeq(v_available_cards, 1, v_needed_count))

replenish_discard_pile(rm, ps, p_room_id, p_target_count, v_cards_to_add) ==
  IF p_room_id # TheRoom THEN Outcome(rm, ps, Reply("replenish", FALSE, "room_not_found", NoCard))
  ELSE IF Len(rm.discard_pile) >= p_target_count
  THEN Outcome(rm, ps, Reply("replenish", TRUE, "not_needed", NoCard))
  ELSE IF Len(AvailableCards(rm, ps)) = 0
  THEN Outcome(rm, ps, Reply("replenish", FALSE, "no_available_cards", NoCard))
  ELSE LET v_new_discard_pile == rm.discard_pile \o v_cards_to_add
           v_new_deck == SelectSeq(rm.deck, LAMBDA card : card \notin Range(v_cards_to_add))
       IN Outcome([rm EXCEPT !.discard_pile = v_new_discard_pile, !.deck = v_new_deck],
                  ps,
                  Reply("replenish", TRUE, "replenished", NoCard))

\* targets a caller passes: none to MaxTarget, and one no deck can supply
Targets == (0..MaxTarget) \cup {EXPECTED_DECK_SIZE + 1}

CallReplenish ==
  \E r \in RoomArgs, target \in Targets : \E added \in CardsToAdd(room, players, target) :
     Counted /\ Commit(replenish_discard_pile(room, players, r, target, added), <<r, target>>)

\* ---- SpecReplenish: a resolution of the vote that has dealt and has still
\* ---- to write hands and room, discards and replenishments

InitReplenish == ExpiredVoting(CARD_LIST, {0})

NextReplenish ==
  \/ \E c \in PlayerIds : handleAutoDecision_hands(c)
  \/ \E c \in PlayerIds : handleAutoDecision_update(c)
  \/ CallDiscard
  \/ CallReplenish

SpecReplenish == InitReplenish /\ [][NextReplenish]_vars

Min(a, b) == IF a <= b THEN a ELSE b

HeldOrOnBoard(card) ==
  \/ \E q \in Seats : \E k \in 1..Len(players[q].hand) : players[q].hand[k] = card
  \/ \E k \in 1..Len(room.discard_pile) : room.discard_pile[k] = card

\* C40: a replenishment leaves everything as it was when the pile already
\* has the target number of cards; otherwise the pile keeps its cards and
\* gains deck cards that no active hand holds and that were not on the pile,
\* up to min(target, previous length + number of such deck entries); the
\* moved cards are gone from the deck, the other deck entries stay in order,
\* and no player row changes
C40_Replenish ==
  [][(ops' # ops /\ result'.op = "replenish" /\ result'.args[1] = TheRoom) =>
       LET target == result'.args[2]
           prev == Len(room.discard_pile)
           free == {i \in 1..Len(room.deck) : ~HeldOrOnBoard(room.deck[i])}
           moved == {room'.discard_pile[k] : k \in (prev + 1)..Len(room'.discard_pile)}
       IN /\ players' = players
          /\ prev >= target => room' = room
          /\ prev < target =>
               /\ Len(room'.discard_pile) = Min(target, prev + Cardinality(free))
               /\ SubSeq(room'.discard_pile, 1, prev) = room.discard_pile
               /\ \A card \in moved :
                     /\ \E i \in free : room.deck[i] = card
                     /\ \A i \in 1..Len(room'.deck) : room'.deck[i] # card
               /\ room'.deck = SelectSeq(room.deck, LAMBDA card : card \notin moved)
               /\ [room' EXCEPT !.deck = room.deck, !.discard_pile = room.discard_pile] = room
    ]_vars

\* the pile was topped up while the deck still held the cards of the hands
\* and the card discarded before
C40_Witness ==
  /\ result.op = "replenish" /\ result.success /\ result.message = "replenished"
  /\ result.args[2] = MaxTarget
  /\ Len(room.discard_pile) = MaxTarget
  /\ Len(room.deck) = EXPECTED_DECK_SIZE - 1
  /\ \E q \in Seats : Len(players[q].hand) = HandSize /\ players[q].hand[1] \in Range(room.deck)
  /\ room.discard_pile[1] \in Range(room.deck)
  /\ room.discard_pile[MaxTarget] \notin Range(room.deck)

\* ---- SpecArgs: every procedure, called with ids that exist and ids that
\* ---- do not, on a room that is still voting

InitArgs == ExpiredVoting(CARD_LIST, {})

NextArgs ==
  \/ NextCards
  \/ CallReplenish

SpecArgs == InitArgs /\ [][NextArgs]_vars

\* the player ids a call was given
PlayerIdsOf(reply) ==
  IF reply.op = "replenish" THEN {}
  ELSE IF reply.op = "gift" THEN {reply.args[2], reply.args[3]}
  ELSE {reply.args[2]}

\* C31: a call of draw, discard, exchange, message gift, final resonance,
\* final reflection or replenish with a room id or a player id that does not
\* exist returns success = false with a message and leaves the room row and
\* every player row as they were
C31_UnknownIds ==
  [][(/\ ops' # ops
      /\ result'.op \in {"draw", "discard", "exchange", "gift", "resonance", "reflection", "replenish"}
      /\ result'.args[1] = NoRoom \/ NoPlayer \in PlayerIdsOf(result'))
       => /\ result'.success = FALSE
          /\ result'.message # ""
          /\ room' = room
          /\ players' = players]_vars

\* a gift for a player that does not exist was turned down in the gifting step
C31_Witness ==
  /\ result.op = "gift" /\ ~result.success
  /\ result.args[1] = TheRoom /\ result.args[2] \in Seats /\ result.args[3] = NoPlayer
  /\ room.final_phase_step = "gifting"

\* ---- SpecTurns: play from the deal; the room row reaches a screen some
\* ---- time after the call that changed it has returned

\* fetchGameData after a change event, and the effect that clears the
\* screen's local state when the turn player it shows changes
fetchGameData(c) ==
  /\ seen[c] # Snapshot(room, exchange_actions)
  /\ seen' = [seen EXCEPT ![c] = Snapshot(room, exchange_actions)]
  /\ clients' = IF room.current_turn_player # seen[c].room.current_turn_player
                THEN [clients EXCEPT ![c].pc = "idle"]
                ELSE clients
  /\ UNCHANGED <<room, players, votes, timeLeft, result, txns, ops, discards, fired,
                 resonance_shares, exchange_actions>>

NextTurns ==
  \/ \E p \in Seats : discards < MaxTurns /\ drawCard(p) /\ UNCHANGED seen
  \/ \E p \in Seats : discards < MaxTurns /\ discardCard(p) /\ UNCHANGED seen
  \/ \E c \in Seats : fetchGameData(c)

SpecTurns == InitGame /\ [][NextTurns]_vars

\* C32: while the status is playing no row changes except by a successful
\* draw or discard of the seat whose turn it is, so the turn moves on only
\* through that seat's discard
C32_TurnOnly ==
  [][(room.status = "playing" /\ (room' # room \/ players' # players)) =>
       /\ result'.op \in {"draw", "discard"}
       /\ result'.success
       /\ players[result'.args[2]].player_number = room.current_turn_player
       /\ room'.current_turn_player # room.current_turn_player => result'.op = "discard"
    ]_vars

\* C36: while the status is playing every seat other than the turn seat
\* holds 3 cards and the turn seat holds 3 or 4
C36_HandSizes ==
  room.status = "playing" =>
    \A q \in Seats :
       IF players[q].player_number = room.current_turn_player
       THEN Len(players[q].hand) \in {HandSize, HandSize + 1}
       ELSE Len(players[q].hand) = HandSize

\* ---- SpecOver: the room after a whole game, every procedure open to any
\* ---- caller, and a spectator screen that never left the check-in

\* the rows when play resumes after an exchange round in which nobody exchanged
AfterExchange ==
  [room |-> [ExchangeStart.room EXCEPT !.status = "playing",
                                       !.current_exchange_turn = 0,
                                       !.exchange_completed = TRUE],
   players |-> ExchangeStart.players]

FinalStart ==
  PlayTurns(AfterExchange.room, AfterExchange.players, (FinalRound - ExchangeRound) * NumSeats)

RECURSIVE GiveAll(_, _, _)
\* the seats of givers, lowest first, each give the turn player a message
GiveAll(rm, ps, givers) ==
  IF givers = {} THEN [room |-> rm, players |-> ps]
  ELSE LET from == CHOOSE q \in givers : \A r \in givers : q <= r
           o == give_final_message_gift(rm, ps, TheRoom, from, rm.final_phase_turn, "thanks")
       IN GiveAll(o.room, o.players, givers \ {from})

RECURSIVE FinalTurns(_, _, _)
\* n turns of the final phase: resonance, three gifts, reflection
FinalTurns(rm, ps, n) ==
  IF n = 0 THEN [room |-> rm, players |-> ps]
  ELSE LET t == rm.final_phase_turn
           a == share_final_resonance(rm, ps, TheRoom, t)
           g == GiveAll(a.room, a.players, Seats \ {t})
           r == share_final_reflection(g.room, g.players, TheRoom, t)
       IN FinalTurns(r.room, r.players, n - 1)

GameOver == FinalTurns(FinalStart.room, FinalStart.players, NumSeats)

InitOver ==
  /\ room = GameOver.room
  /\ players = GameOver.players
  /\ votes = [p \in PlayerIds |-> NoVote]
  /\ resonance_shares = {}
  /\ timeLeft = 1
  /\ exchange_actions = <<>>
  /\ seen = [c \in Seats |-> Snapshot(room, exchange_actions)]
  /\ result = NoReply
  /\ clients = [c \in PlayerIds |->
                  IF c = Straggler THEN [NewClient EXCEPT !.view = "checkin"]
                  ELSE [NewClient EXCEPT !.view = room.status]]
  /\ txns = [t \in 1..MaxCalls |-> NoTxn]
  /\ ops = 0
  /\ discards = FinalRound * NumSeats
  /\ fired = [NoFired EXCEPT !.checkin = 1, !.voting_result = 1, !.resonance_initial = 1]

NextOver ==
  \/ ops < MaxAfter /\ NextCards
  \/ \E c \in PlayerIds : startVoting(c)

SpecOver == InitOver /\ [][NextOver]_vars

\* C33: once the status is complete or completed no step changes it
C33_Terminal ==
  [][room.status \in {"complete", "completed"} => room'.status = room.status]_vars

C38_FinalPhaseOnly ==
  [][(/\ ops' # ops
      /\ result'.op \in {"resonance", "gift", "reflection"}
      /\ room.status \notin {"resonance_final", "gift_exchange"})
       => /\ ~result'.success
          /\ room' = room
          /\ players' = players]_vars

\* ---- SpecSync: the room hook of every seat during play. A change event is
\* ---- a signal to re-read; the transport may lose it or hand it over twice.

Watchers == 0..(MaxWatch - 1)

\* a channel that reports SUBSCRIBED, with no change event on its way
Listening == [isSubscribed |-> TRUE, events |-> 0] @@ [NewClient EXCEPT !.view = "playing"]

InitSync ==
  /\ room = [DealtRoom EXCEPT !.card_options = purposeCards]
  /\ players = [id \in PlayerIds |-> [DealtPlayers[id] EXCEPT !.has_checked_in = (id \in Seats)]]
  /\ votes = [p \in PlayerIds |-> NoVote]
  /\ resonance_shares = {}
  /\ timeLeft = 1
  /\ exchange_actions = <<>>
  /\ seen = [c \in Seats |-> Snapshot(room, exchange_actions)]
  /\ result = NoReply
  /\ clients = [c \in PlayerIds |-> Listening]
  /\ txns = [t \in 1..MaxCalls |-> NoTxn]
  /\ ops = 0
  /\ discards = 0
  /\ fired = [NoFired EXCEPT !.checkin = 1, !.voting_result = 1, !.resonance_initial = 1]

\* postgres_changes: one event for every subscribed channel of the room
Notify(cl) ==
  [c \in PlayerIds |->
     IF cl[c].isSubscribed /\ cl[c].events < MaxEvents
     THEN [cl[c] EXCEPT !.events = @ + 1]
     ELSE cl[c]]

\* the rows change: the seat whose turn it is draws, or discards its first card
StoreChange ==
  /\ ops < MaxOps
  /\ ops' = ops + 1
  /\ \E p \in Seats :
       /\ players[p].player_number = room.current_turn_player
       /\ IF Len(players[p].hand) = HandSize
          THEN Commit(atomic_draw_card(room, players, TheRoom, p), <<TheRoom, p>>)
          ELSE Commit(atomic_discard_card(room, players, TheRoom, p, players[p].hand[1]),
                      <<TheRoom, p, players[p].hand[1]>>)
  /\ clients' = Notify(clients)
  /\ UNCHANGED <<votes, timeLeft, resonance_shares, exchange_actions, seen, txns, fired>>

SyncQuiet ==
  UNCHANGED <<room, players, votes, timeLeft, result, txns, ops, discards, fired,
              resonance_shares, exchange_actions>>

\* the transport loses an event
DropEvent(c) ==
  /\ clients[c].events > 0
  /\ clients' = [clients EXCEPT ![c].events = @ - 1]
  /\ UNCHANGED seen
  /\ SyncQuiet

\* the transport hands an event over a second time
DuplicateEvent(c) ==
  /\ clients[c].events > 0
  /\ clients[c].events < MaxEvents
  /\ clients' = [clients EXCEPT ![c].events = @ + 1]
  /\ UNCHANGED seen
  /\ SyncQuiet

\* the game_rooms / players handlers of the channel: re-read the rows
onPostgresChanges(c) ==
  /\ clients[c].events > 0
  /\ clients' = [clients EXCEPT ![c].events = @ - 1]
  /\ seen' = [seen EXCEPT ![c] = Snapshot(room, exchange_actions)]
  /\ SyncQuiet

\* the 10-second interval: re-reads only while the channel is not subscribed
pollInterval(c) ==
  /\ ~clients[c].isSubscribed
  /\ seen[c] # Snapshot(room, exchange_actions)
  /\ seen' = [seen EXCEPT ![c] = Snapshot(room, exchange_actions)]
  /\ UNCHANGED clients
  /\ SyncQuiet

\* the subscribe callback: SUBSCRIBED, or CHANNEL_ERROR / TIMED_OUT / CLOSED,
\* with which the events still on their way are gone
subscribeStatus(c) ==
  /\ clients' = [clients EXCEPT ![c].isSubscribed = ~@, ![c].events = 0]
  /\ UNCHANGED seen
  /\ SyncQuiet

NextSync ==
  \/ StoreChange
  \/ \E c \in Watchers : DropEvent(c)
  \/ \E c \in Watchers : DuplicateEvent(c)
  \/ \E c \in Seats : onPostgresChanges(c)
  \/ \E c \in Seats : pollInterval(c)
  \/ \E c \in Watchers : subscribeStatus(c)

SpecSync == InitSync /\ [][NextSync]_vars

\* an event that arrives is handled, and a due poll runs
SpecSyncFair ==
  /\ SpecSync
  /\ \A c \in Seats : WF_vars(onPostgresChanges(c)) /\ WF_vars(pollInterval(c))

InSync(c) ==
  /\ seen[c].room.status = room.status
  /\ seen[c].room.current_turn_player = room.current_turn_player
  /\ seen[c].room.round_number = room.round_number
  /\ seen[c].room.current_exchange_turn = room.current_exchange_turn
  /\ seen[c].room.final_phase_turn = room.final_phase_turn

Shared == share_final_resonance(FinalStart.room, FinalStart.players, TheRoom, 0)

Gifted == GiveAll(Shared.room, Shared.players, Seats \ {0})

Procedures == {"draw", "discard", "exchange", "replenish", "resonance", "gift", "reflection"}

\* an invocation: its arguments and the rows it has locked so far
Pending == [room_id |-> TheRoom, to |-> NoPlayer, held |-> <<>>] @@ NoTxn

\* the final phase in its sharing, gifting and reflection step
InitOrder ==
  /\ \E s \in {FinalStart, [room |-> Shared.room, players |-> Shared.players], Gifted} :
        room = s.room /\ players = s.players
  /\ votes = [p \in PlayerIds |-> NoVote]
  /\ resonance_shares = {}
  /\ timeLeft = 1
  /\ exchange_actions = <<>>
  /\ seen = [c \in Seats |-> Snapshot(room, exchange_actions)]
  /\ result = NoReply
  /\ clients = [c \in PlayerIds |-> NewClient]
  /\ txns = [t \in Calls |-> Pending]
  /\ ops = 0
  /\ discards = 0
  /\ fired = NoFired

RoomRowOf(call) == <<"game_rooms", call.room_id>>

PlayerRow(id) == <<"players", id>>

\* the rows of UPDATE players .. WHERE room_id = p_room_id AND role = 'player'
ActiveRows(ps, own) ==
  LET Other(row) == row[2] # own /\ ps[row[2]].role = "player"
  IN SelectSeq([i \in 1..(NumSeats + 1) |-> PlayerRow(i - 1)], Other)

\* a variant that locks the player rows first and the room row last
player_rows_first(rm, ps, call) ==
  IF call.op = "replenish" THEN <<RoomRowOf(call)>>
  ELSE IF call.op = "gift"
  THEN <<PlayerRow(call.player), PlayerRow(call.to), RoomRowOf(call)>>
  ELSE <<PlayerRow(call.player), RoomRowOf(call)>>

\* the rows a call locks, in the order of its statements
LockOrder(rm, ps, call) ==
  IF call.op = "replenish" THEN <<RoomRowOf(call)>>
  ELSE IF call.op = "gift"
  THEN <<RoomRowOf(call), PlayerRow(call.player), PlayerRow(call.to)>>
  ELSE IF /\ call.op = "reflection"
          /\ share_final_reflection(rm, ps, call.room_id, call.player).reply.success
          /\ rm.final_phase_turn + 1 < NumSeats
  THEN <<RoomRowOf(call), PlayerRow(call.player)>> \o ActiveRows(ps, call.player)
  ELSE <<RoomRowOf(call), PlayerRow(call.player)>>

RowExists(row) ==
  IF row[1] = "game_rooms" THEN row[2] = TheRoom ELSE row[2] \in DOMAIN players

RowFree(t, row) == \A u \in Calls \ {t} : row \notin Range(txns[u].held)

\* the procedure of a call, run on the rows rm, ps
Perform(rm, ps, call, added) ==
  IF call.op = "draw" THEN atomic_draw_card(rm, ps, call.room_id, call.player)
  ELSE IF call.op = "discard"
  THEN atomic_discard_card(rm, ps, call.room_id, call.player, call.card)
  ELSE IF call.op = "exchange"
  THEN atomic_exchange_card(rm, ps, call.room_id, call.player, call.card,
                            IF rm.discard_pile = <<>> THEN NoCard ELSE rm.discard_pile[1])
  ELSE IF call.op = "replenish"
  THEN replenish_discard_pile(rm, ps, call.room_id, MaxTarget, added)
  ELSE IF call.op = "resonance"
  THEN share_final_resonance(rm, ps, call.room_id, call.player)
  ELSE IF call.op = "gift"
  THEN give_final_message_gift(rm, ps, call.room_id, call.player, call.to, "thanks")
  ELSE share_final_reflection(rm, ps, call.room_id, call.player)

\* the players named in the calls
LockCallers == {p \in Seats : p < MaxLockers} \cup {NoPlayer}

InvokeAny(t) ==
  \E op \in Procedures, r \in RoomArgs, p \in LockCallers, to \in LockCallers :
     /\ txns[t].pc = "idle"
     /\ op # "gift" => to = NoPlayer
     /\ txns' = [txns EXCEPT ![t] =
                   [Pending EXCEPT !.pc = "called", !.op = op, !.room_id = r,
                                   !.player = p, !.to = to,
                                   !.card = IF p \in DOMAIN players /\ players[p].hand # <<>>
                                            THEN players[p].hand[1] ELSE NoCard]]
     /\ UNCHANGED <<room, players, result, discards>>
     /\ Quiet

NextRow(t) == Len(txns[t].held) + 1

\* the call has a row left to lock, and which
LocksLeft(t) == NextRow(t) <= Len(LockOrder(room, players, txns[t]))

Wanted(t) == LockOrder(room, players, txns[t])[NextRow(t)]

\* SELECT .. FOR UPDATE, or the row lock of an UPDATE, on a row that exists
AcquireLock(t) ==
  /\ txns[t].pc = "called"
  /\ LocksLeft(t)
  /\ RowExists(Wanted(t))
  /\ RowFree(t, Wanted(t))
  /\ txns' = [txns EXCEPT ![t].held = Append(txns[t].held, Wanted(t))]
  /\ UNCHANGED <<room, players, result, discards>>
  /\ Quiet

\* the call returns: a row was not found, or every lock is held and the
\* checks and UPDATEs have run; the transaction ends and the locks are gone
Return(t) ==
  /\ txns[t].pc = "called"
  /\ LocksLeft(t) => ~RowExists(Wanted(t))
  /\ \E added \in CardsToAdd(room, players, MaxTarget) :
       /\ Commit(Perform(room, players, txns[t], added), <<txns[t].room_id, txns[t].player>>)
       /\ txns' = [txns EXCEPT ![t].pc = "done", ![t].held = <<>>,
                               ![t].reply = Perform(room, players, txns[t], added).reply]
  /\ Quiet

NextOrder ==
  \/ \E t \in Calls : InvokeAny(t)
  \/ \E t \in Calls : AcquireLock(t)
  \/ \E t \in Calls : Return(t)

SpecOrder == InitOrder /\ [][NextOrder]_vars

\* a call that can go on does go on
SpecOrderFair ==
  /\ SpecOrder
  /\ \A t \in Calls : WF_vars(AcquireLock(t) \/ Return(t))

HoldsRoomRow(t) == \E i \in 1..Len(txns[t].held) : txns[t].held[i][1] = "game_rooms"

\* the call is not waiting for a row that another call holds
CanGoOn(t) ==
  /\ txns[t].pc = "called"
  /\ (LocksLeft(t) /\ RowExists(Wanted(t))) => RowFree(t, Wanted(t))

\* C37: a call locks a player row only while it holds the room row, so
\* among the calls running in one room there is always one that can go on,
\* and every call returns
C37_LockOrder ==
  /\ [][\A t \in Calls :
          (Len(txns'[t].held) > Len(txns[t].held) /\ txns'[t].held[Len(txns'[t].held)][1] = "players")
             => HoldsRoomRow(t)]_vars
  /\ []((\E t \in Calls : txns[t].pc = "called") => \E t \in Calls : CanGoOn(t))
  /\ \A t \in Calls : (txns[t].pc = "called") ~> (txns[t].pc = "done")

\* one call holds the room, sender and recipient rows of a gift while the
\* other waits for the room row
C37_Witness ==
  \E t, u \in Calls :
     /\ txns[t].op = "gift" /\ Len(txns[t].held) = 3 /\ txns[t].to # txns[t].player
     /\ txns[u].pc = "called" /\ txns[u].held = <<>> /\ ~CanGoOn(u)

\* ---- the exchange phase with every seat connected: whatever a screen
\* ---- offers is eventually done, its timer fires, and late events arrive
SpecExchangeFair ==
  /\ SpecExchange
  /\ \A p \in Seats :
        /\ WF_vars(executeExchange(p) /\ Stale)
        /\ WF_vars(executeExchange_log(p) /\ Stale)
        /\ WF_vars(skipExchange(p) /\ Stale)
        /\ WF_vars(advanceToNextTurn(p) /\ Stale)
        /\ WF_vars(exchangeTransitionTimer(p) /\ Stale)
        /\ WF_vars(Deliver(p))

\* C35: with four seats connected and acting, the room does not stay in a
\* phase for ever; in particular the exchange phase, which has no leader and
\* no timeout of its own, is left
C35_NoStall == <>(room.status # "exchange")
====
